---- MODULE Spec2Model ----
(***************************************************************************)
(* Model of the mining-pool worker of S-anasol/Sia                         *)
(* (src/modules/miningpool/worker.go): worker creation, the per-worker     *)
(* read/write lock and its accessors, share accounting delegated to the    *)
(* bound session's current shift, and the pool-wide CurrentDifficulty      *)
(* scan under the dispatcher lock.                                         *)
(*                                                                         *)
(* Shift, Session, Client, Dispatcher and the id generator are not part of *)
(* the sources at hand; they are modelled from the specification and are   *)
(* marked so where they are defined.                                       *)
(***************************************************************************)
EXTENDS Integers, Sequences, FiniteSets, TLC

(***************************************************************************)
(* float64 values.  IncrementShares takes a float64 and                    *)
(* CumulativeDifficulty returns one, so the running sum is a float64 sum.  *)
(* A positive float64 is mant * 2^e with a 53-bit mantissa whose top bit   *)
(* is set; the mantissa is kept as a little-endian sequence of bits.       *)
(* Zero is the empty mantissa.  Only non-negative normal values occur.     *)
(***************************************************************************)
MantBits == 53

FZero == [m |-> <<>>, e |-> 0]

RECURSIVE Zeros(_)
Zeros(n) == IF n <= 0 THEN <<>> ELSE <<0>> \o Zeros(n - 1)

\* bits of x + y + c, least significant first
RECURSIVE AddBits(_, _, _)
AddBits(x, y, c) ==
  IF x = <<>> /\ y = <<>>
    THEN (IF c = 1 THEN <<1>> ELSE <<>>)
    ELSE LET a == IF x = <<>> THEN 0 ELSE Head(x)
             b == IF y = <<>> THEN 0 ELSE Head(y)
             s == a + b + c
         IN  <<s % 2>> \o AddBits(IF x = <<>> THEN <<>> ELSE Tail(x),
                                  IF y = <<>> THEN <<>> ELSE Tail(y),
                                  s \div 2)

\* drop the zero bits above the highest set bit
RECURSIVE StripHigh(_)
StripHigh(x) ==
  IF x = <<>> THEN <<>>
  ELSE IF x[Len(x)] = 0 THEN StripHigh(SubSeq(x, 1, Len(x) - 1))
  ELSE x

AnySet(x) == \E i \in 1..Len(x) : x[i] = 1

\* the exact value m * 2^e rounded to a float64: round to nearest, ties to even
RoundFloat(m0, e0) ==
  LET m == StripHigh(m0)
      n == Len(m)
  IN  IF n = 0 THEN FZero
      ELSE IF n <= MantBits
        THEN [m |-> Zeros(MantBits - n) \o m, e |-> e0 - (MantBits - n)]
      ELSE
        LET k     == n - MantBits
            kept  == SubSeq(m, k + 1, n)
            half  == m[k]
            rest  == AnySet(SubSeq(m, 1, k - 1))
            up    == half = 1 /\ (rest \/ kept[1] = 1)
            r     == IF up THEN AddBits(kept, <<1>>, 0) ELSE kept
        IN  IF Len(r) > MantBits
              THEN [m |-> SubSeq(r, 2, Len(r)), e |-> e0 + k + 1]
              ELSE [m |-> r, e |-> e0 + k]

Min2(a, b) == IF a <= b THEN a ELSE b

\* the exact sum of two values as an unrounded (mantissa, exponent) pair
ExactAdd(a, b) ==
  IF a.m = <<>> THEN b
  ELSE IF b.m = <<>> THEN a
  ELSE LET e == Min2(a.e, b.e)
       IN  [m |-> AddBits(Zeros(a.e - e) \o a.m, Zeros(b.e - e) \o b.m, 0),
            e |-> e]

\* float64 addition: x + y in Go
FAdd(a, b) == LET s == ExactAdd(a, b) IN RoundFloat(s.m, s.e)

\* float64(n) * d for a small count n: the exact product, rounded once
RECURSIVE ExactTimes(_, _)
ExactTimes(n, d) == IF n = 0 THEN FZero ELSE ExactAdd(ExactTimes(n - 1, d), d)

FTimes(n, d) == LET p == ExactTimes(n, d) IN RoundFloat(p.m, p.e)

\* d added to 0.0 n times, each addition rounded
RECURSIVE FSumN(_, _)
FSumN(n, d) == IF n = 0 THEN FZero ELSE FAdd(FSumN(n - 1, d), d)

\* long division of the bits ds (most significant first) by the small
\* count k, carrying the remainder r and the quotient bits q found so far
\* (least significant first): <<quotient bits, final remainder>>
RECURSIVE DivBits(_, _, _, _)
DivBits(ds, k, r, q) ==
  IF ds = <<>> THEN << q, r >>
  ELSE IF 2 * r + Head(ds) >= k
    THEN DivBits(Tail(ds), k, 2 * r + Head(ds) - k, <<1>> \o q)
    ELSE DivBits(Tail(ds), k, 2 * r + Head(ds), <<0>> \o q)

RECURSIVE Reverse(_)
Reverse(x) == IF x = <<>> THEN <<>> ELSE Reverse(Tail(x)) \o <<Head(x)>>

GuardBits == 8

\* float64 division x / float64(k) for a small count k >= 1: the quotient
\* is developed GuardBits places past the mantissa, a non-zero remainder
\* is kept as one more low bit, and the result is rounded once
FDivInt(x, k) ==
  IF x.m = <<>> THEN FZero
  ELSE LET d == DivBits(Reverse(x.m) \o Zeros(GuardBits), k, 0, <<>>)
           sticky == IF d[2] # 0 THEN 1 ELSE 0
       IN  RoundFloat(<<sticky>> \o d[1], x.e - GuardBits - 1)

\* the four bits of a hexadecimal digit, least significant first
HexBits(h) == << h % 2, (h \div 2) % 2, (h \div 4) % 2, (h \div 8) % 2 >>

RECURSIVE HexLE(_)
HexLE(ds) == IF ds = <<>> THEN <<>> ELSE HexLE(Tail(ds)) \o HexBits(Head(ds))

\* the float64 with the mantissa given by hexadecimal digits (most
\* significant first) and binary exponent e
FloatOfHex(ds, e) == [m |-> StripHigh(HexLE(ds)), e |-> e]

\* 1.0 = 0x10000000000000 * 2^-52, 0.1 = 0x1999999999999A * 2^-56
F_One   == FloatOfHex(<<1,0,0,0,0,0,0,0,0,0,0,0,0,0>>, -52)
F_Tenth == FloatOfHex(<<1,9,9,9,9,9,9,9,9,9,9,9,9,10>>, -56)

\* difficulties handed to IncrementShares
Difficulties == {F_One, F_Tenth}


(***************************************************************************)
(* State.                                                                  *)
(***************************************************************************)
VARIABLES
  workers,            \* the Worker instances created so far: wr fields and s
  shifts,             \* every Shift created so far; a Session refers to one by index
  sessShift,          \* Session -> index of its current Shift
  currentDifficulty,  \* the difficulty the protocol layer passes to IncrementShares
  pc,                 \* execution context -> the call it is in and its locals
  rotations,          \* number of Rotate() calls so far
  returnedIn,         \* history: per shift, the IncrementShares calls that returned while it was current
  seqRun,             \* history: no Rotate() has run while an IncrementShares call was in flight
  clientWorkers,      \* Client -> worker name -> the instances registered under it
  stratumID,          \* the id generator's counter
  fsFailing,          \* the filesystem provider currently fails mkdirAll and newLogger
  creation,           \* history: per Worker allocated, what its newWorker call did
  wmu,                \* Worker -> its sync.RWMutex: the writer and the readers inside
  dmu,                \* the Dispatcher's mutex: the context holding it, or 0
  handlers,           \* the Dispatcher's registry: the sessions of the registered handlers
  sess,               \* Session -> its bound Client, CurrentWorker and current difficulty
  events,             \* number of calls and connection events issued in a scan run
  store,              \* the persistence layer: the worker records handed to it, in order
  renter,             \* a newRenter call: its arguments, its position, what it built and returned
  api                 \* a request to consensusBlocksHandler: its position and the responses written

shareVars == <<shifts, sessShift, currentDifficulty, rotations, returnedIn, seqRun>>

createVars == <<clientWorkers, stratumID, fsFailing, creation>>

scanVars == <<wmu, dmu, handlers, sess, events>>

storeVars == <<store>>

renterVars == <<renter>>

apiVars == <<api>>

nonShareVars == <<createVars, scanVars, storeVars, renterVars, apiVars>>

nonCreateVars == <<shareVars, scanVars, storeVars, renterVars, apiVars>>

nonScanVars == <<shareVars, createVars, storeVars, renterVars, apiVars>>

\* everything but the newRenter call
nonRenterVars == <<workers, pc, shareVars, createVars, scanVars, storeVars, apiVars>>

\* everything but the API request
nonApiVars == <<workers, pc, shareVars, createVars, scanVars, storeVars, renterVars>>

vars == <<workers, pc, shifts, sessShift, currentDifficulty, rotations, returnedIn, seqRun,
          clientWorkers, stratumID, fsFailing, creation,
          wmu, dmu, handlers, sess, events, store, renter, api>>

\* no newRenter call has been made
NoRenter == [at |-> "idle"]

\* no request has been handled
NoRequest == [at |-> "none"]

Clients == {"c1", "c2"}
Names   == {"rig", "gpu"}

\* the scan state of a run without a Dispatcher
NoScanState ==
  /\ wmu = << >>
  /\ dmu = 0
  /\ handlers = {}
  /\ sess = << >>
  /\ events = 0

NoSession == "nil"
NoClient  == "nil"
NoLogger  == "nil"

(***************************************************************************)
(* Bounds of the share-accounting runs.                                    *)
(***************************************************************************)
NCallers     == 2    \* concurrent callers of IncrementShares
KCalls       == 3    \* calls issued by each caller
MaxRotations == 1    \* Rotate() calls in one run

Callers == 1..NCallers

(***************************************************************************)
(* Shift (modelled from the specification, sections 3 and 4.2): exact      *)
(* counters, a running float64 sum of difficulties, and the lifecycle      *)
(* Active -> Finalized.  Each operation on a Shift is atomic.              *)
(***************************************************************************)
NewShift ==
  [shares |-> 0, invalid |-> 0, stale |-> 0, cumulativeDifficulty |-> FZero,
   lastShareTime |-> 0, finalized |-> FALSE]

ShiftIncrementShares(sh) == [sh EXCEPT !.shares = @ + 1]

ShiftIncrementInvalid(sh) == [sh EXCEPT !.invalid = @ + 1]

ShiftIncrementStale(sh) == [sh EXCEPT !.stale = @ + 1]

ShiftIncrementCumulativeDifficulty(sh, more) ==
  [sh EXCEPT !.cumulativeDifficulty = FAdd(@, more)]

\* Session.Shift(): the session's current Shift (section 4.3)
SessionShift(s) == sessShift[s]

(***************************************************************************)
(* Worker: the record built by newWorker and the methods of worker.go.     *)
(***************************************************************************)
\* &Worker{wr: WorkerRecord{workerID: id(), name: name, parent: c}, s: s}
MakeWorker(id, name, c, s) ==
  [workerID |-> id, name |-> name, parent |-> c, blocksFound |-> 0,
   s |-> s, log |-> NoLogger]

\* SharesThisBlock reading the invalid counter
SharesThisBlock_Invalid(w) == shifts[SessionShift(workers[w].s)].invalid

\* func (w *Worker) SharesThisBlock() uint64 { return w.s.Shift().Shares() }
SharesThisBlock(w) == shifts[SessionShift(workers[w].s)].shares

\* func (w *Worker) CumulativeDifficulty() float64
CumulativeDifficulty(w) == shifts[SessionShift(workers[w].s)].cumulativeDifficulty

\* Online() testing the logger in place of the session
Online_HasLogger(w) == workers[w].log # NoLogger

\* func (w *Worker) Online() bool { return w.s != nil }
Online(w) == workers[w].s # NoSession

InFlight(t) == pc[t].at \notin {"idle", "panic"}

Quiescent == \A t \in DOMAIN pc : ~InFlight(t)

\* w.s.Shift() answered by the shift of the session the worker was created
\* with, whatever session is bound now
EvalShift_CreationSession(t, next) ==
  IF workers[pc[t].w].s = NoSession
    THEN pc' = [pc EXCEPT ![t].at = "panic"]
    ELSE pc' = [pc EXCEPT ![t].at = next, ![t].sh = 1]

\* w.s.Shift(), the receiver expression of every accounting method: it
\* reads w.s without the worker lock and aborts on a nil session
EvalShift(t, next) ==
  IF workers[pc[t].w].s = NoSession
    THEN pc' = [pc EXCEPT ![t].at = "panic"]
    ELSE pc' = [pc EXCEPT ![t].at = next,
                          ![t].sh = SessionShift(workers[pc[t].w].s)]

\* IncrementShares, entry and the receiver of line 116: w.s.Shift()
IncrementShares_Shift1(t) ==
  /\ pc[t].at = "idle"
  /\ pc[t].left > 0
  /\ EvalShift(t, "IS_inc")
  /\ UNCHANGED <<workers, shareVars, nonShareVars>>

\* line 116 with the increment skipped once the shift obtained is Finalized
IncrementShares_Inc_SkipFinalized(t) ==
  /\ pc[t].at = "IS_inc"
  /\ shifts' = [shifts EXCEPT ![pc[t].sh] =
                  IF @.finalized THEN @ ELSE ShiftIncrementShares(@)]
  /\ pc' = [pc EXCEPT ![t].at = "IS_shift2"]
  /\ UNCHANGED <<workers, sessShift, currentDifficulty, rotations, returnedIn, seqRun, nonShareVars>>

\* line 116 calling IncrementInvalid() in place of IncrementShares()
IncrementShares_Inc_Invalid(t) ==
  /\ pc[t].at = "IS_inc"
  /\ shifts' = [shifts EXCEPT ![pc[t].sh] = ShiftIncrementInvalid(@)]
  /\ pc' = [pc EXCEPT ![t].at = "IS_shift2"]
  /\ UNCHANGED <<workers, sessShift, currentDifficulty, rotations, returnedIn, seqRun, nonShareVars>>

\* line 116: .IncrementShares() on the shift just obtained
IncrementShares_Inc(t) ==
  /\ pc[t].at = "IS_inc"
  /\ shifts' = [shifts EXCEPT ![pc[t].sh] = ShiftIncrementShares(@)]
  /\ pc' = [pc EXCEPT ![t].at = "IS_shift2"]
  /\ UNCHANGED <<workers, sessShift, currentDifficulty, rotations, returnedIn, seqRun, nonShareVars>>

\* line 117, receiver: w.s.Shift() evaluated a second time
IncrementShares_Shift2(t) ==
  /\ pc[t].at = "IS_shift2"
  /\ EvalShift(t, "IS_cum")
  /\ UNCHANGED <<workers, shareVars, nonShareVars>>

\* line 117 repeating line 116's call: the difficulty is never added
IncrementShares_Cum_SharesAgain(t) ==
  /\ pc[t].at = "IS_cum"
  /\ shifts' = [shifts EXCEPT ![pc[t].sh] = ShiftIncrementShares(@)]
  /\ pc' = [pc EXCEPT ![t].at = "idle", ![t].left = @ - 1]
  /\ returnedIn' = [returnedIn EXCEPT ![SessionShift(workers[pc[t].w].s)] = @ + 1]
  /\ UNCHANGED <<workers, sessShift, currentDifficulty, rotations, seqRun, nonShareVars>>

\* line 117: .IncrementCumulativeDifficulty(currentDifficulty), then return
IncrementShares_Cum(t) ==
  /\ pc[t].at = "IS_cum"
  /\ shifts' = [shifts EXCEPT ![pc[t].sh] =
                  ShiftIncrementCumulativeDifficulty(@, currentDifficulty)]
  /\ pc' = [pc EXCEPT ![t].at = "idle", ![t].left = @ - 1]
  /\ returnedIn' = [returnedIn EXCEPT ![SessionShift(workers[pc[t].w].s)] = @ + 1]
  /\ UNCHANGED <<workers, sessShift, currentDifficulty, rotations, seqRun, nonShareVars>>

(***************************************************************************)
(* Rotate (modelled from the specification, section 4.2): atomically swaps *)
(* in a fresh zero-valued Active shift and yields the previous one marked  *)
(* Finalized.                                                              *)
(***************************************************************************)
Rotate(s) ==
  /\ rotations < MaxRotations
  /\ shifts' = Append([shifts EXCEPT ![sessShift[s]].finalized = TRUE], NewShift)
  /\ sessShift' = [sessShift EXCEPT ![s] = Len(shifts) + 1]
  /\ rotations' = rotations + 1
  /\ returnedIn' = Append(returnedIn, 0)
  /\ seqRun' = (seqRun /\ Quiescent)
  /\ UNCHANGED <<workers, pc, currentDifficulty, nonShareVars>>

(***************************************************************************)
(* Share accounting on one unrotated shift: NCallers contexts each issue   *)
(* KCalls calls of IncrementShares on one worker bound to session s1.      *)
(***************************************************************************)
InitAccounting(callers) ==
  /\ workers = << MakeWorker(1, "rig", "c1", "s1") >>
  /\ shifts = << NewShift >>
  /\ sessShift = [s \in {"s1"} |-> 1]
  /\ currentDifficulty \in Difficulties
  /\ pc = [t \in callers |-> [at |-> "idle", w |-> 1, left |-> KCalls, sh |-> 0]]
  /\ rotations = 0
  /\ returnedIn = << 0 >>
  /\ seqRun = TRUE
  /\ clientWorkers = [c \in Clients |-> [n \in Names |-> IF c = "c1" /\ n = "rig" THEN {1} ELSE {}]]
  /\ stratumID = 1
  /\ fsFailing = FALSE
  /\ creation = << [copy |-> FALSE, fsDown |-> FALSE, mkdir |-> TRUE,
                     logger |-> TRUE, result |-> "worker"] >>
  /\ NoScanState
  /\ store = << >>
  /\ renter = NoRenter
  /\ api = NoRequest

InitShares == InitAccounting(Callers)

NextShares ==
  \/ \E t \in DOMAIN pc : IncrementShares_Shift1(t)
  \/ \E t \in DOMAIN pc : IncrementShares_Inc(t)
  \/ \E t \in DOMAIN pc : IncrementShares_Shift2(t)
  \/ \E t \in DOMAIN pc : IncrementShares_Cum(t)

SpecShares == InitShares /\ [][NextShares]_vars

(***************************************************************************)
(* The same accounting with a settlement context that rotates the          *)
(* session's shift while two contexts submit shares.                       *)
(***************************************************************************)
RotateCallers == {1, 2}

InitRotate == InitAccounting(RotateCallers)

NextRotate ==
  \/ NextShares
  \/ Rotate("s1")

SpecRotate == InitRotate /\ [][NextRotate]_vars

AllReturned == \A t \in DOMAIN pc : pc[t].at = "idle" /\ pc[t].left = 0


\* IncrementShares calls that have returned, over all callers
RECURSIVE ReturnedOf(_)
ReturnedOf(T) ==
  IF T = {} THEN 0
  ELSE LET t == CHOOSE x \in T : TRUE
       IN  (KCalls - pc[t].left) + ReturnedOf(T \ {t})

CallsReturned == ReturnedOf(DOMAIN pc)

\* shares counted over the first n shifts
RECURSIVE SharesUpTo(_)
SharesUpTo(n) == IF n = 0 THEN 0 ELSE shifts[n].shares + SharesUpTo(n - 1)

(***************************************************************************)
(* C1: NCallers concurrent callers each issue KCalls calls of              *)
(* IncrementShares on a worker bound to one session whose shift is not     *)
(* rotated.  Once all calls have returned, SharesThisBlock() is exactly    *)
(* NCallers * KCalls; whenever no call is in flight it is exactly the      *)
(* number of calls that have returned.  (SpecShares)                       *)
(***************************************************************************)
C1_NoLostShares ==
  /\ AllReturned => SharesThisBlock(1) = NCallers * KCalls
  /\ Quiescent => SharesThisBlock(1) = CallsReturned

C1_Witness ==
  /\ NCallers >= 2
  /\ AllReturned
  /\ rotations = 0
  /\ SharesThisBlock(1) = NCallers * KCalls

(***************************************************************************)
(* C2 as stated: once all NCallers * KCalls calls of IncrementShares(d)    *)
(* have returned, CumulativeDifficulty() equals exactly N*K*d (the product *)
(* taken exactly and rounded once to a float64).  (SpecShares)             *)
(***************************************************************************)
C2_ExactProduct ==
  AllReturned =>
    CumulativeDifficulty(1) = FTimes(NCallers * KCalls, currentDifficulty)

(***************************************************************************)
(* C2 as amended: once all calls have returned, CumulativeDifficulty() is  *)
(* the float64 obtained by adding d to 0.0 NCallers * KCalls times, each   *)
(* addition rounded, under every interleaving; for d = 1.0, whose partial  *)
(* sums are exact, that is N*K*d.  (SpecShares)                            *)
(***************************************************************************)
C2_RoundedSum ==
  AllReturned =>
    /\ CumulativeDifficulty(1) = FSumN(NCallers * KCalls, currentDifficulty)
    /\ currentDifficulty = F_One =>
         CumulativeDifficulty(1) = FTimes(NCallers * KCalls, F_One)

C2_Witness ==
  /\ AllReturned
  /\ currentDifficulty = F_Tenth
  /\ CumulativeDifficulty(1) = FSumN(NCallers * KCalls, F_Tenth)
  /\ CumulativeDifficulty(1) # FTimes(NCallers * KCalls, F_Tenth)

(***************************************************************************)
(* C3: with Rotate() running concurrently with share increments on the     *)
(* same session, every increment is counted in exactly one shift: whenever *)
(* no call is in flight, the share counts of all shifts of the session     *)
(* (Finalized and Active) add up to the number of calls that have          *)
(* returned.  (SpecRotate)                                                 *)
(***************************************************************************)
C3_RotatePartition ==
  /\ Quiescent => SharesUpTo(Len(shifts)) = CallsReturned
  /\ AllReturned => SharesUpTo(Len(shifts)) = Cardinality(DOMAIN pc) * KCalls

\* a Rotate() that ran while a call was in flight, whose increment was then
\* counted in the Finalized shift although the call returned after the swap
C3_Witness ==
  /\ AllReturned
  /\ rotations = 1
  /\ ~seqRun
  /\ shifts[1].finalized
  /\ shifts[1].shares > returnedIn[1]
  /\ shifts[2].shares > 0

(***************************************************************************)
(* C4: sequential rotation.  When every Rotate() ran with no increment in  *)
(* flight, then whenever no call is in flight each Finalized shift reports *)
(* the number of increments made while it was current (K), the current     *)
(* shift and SharesThisBlock() report the number made since the last       *)
(* Rotate() (0 right after it, M after M further increments), and exactly  *)
(* the session's current shift is not Finalized.  (SpecRotate)             *)
(***************************************************************************)
C4_SequentialRotate ==
  (seqRun /\ Quiescent) =>
    /\ \A i \in 1..Len(shifts) :
         /\ shifts[i].shares = returnedIn[i]
         /\ shifts[i].finalized <=> i # sessShift["s1"]
    /\ SharesThisBlock(1) = returnedIn[sessShift["s1"]]

C4_Witness ==
  /\ seqRun /\ Quiescent
  /\ rotations = 1
  /\ shifts[1].finalized /\ shifts[1].shares = 2
  /\ SharesThisBlock(1) = 3

(***************************************************************************)
(* Worker creation.                                                        *)
(***************************************************************************)
MaxWorkers == 3      \* Worker instances allocated in one run

CreateContexts == {1, 2}

\* the (client, name) pairs connections authenticate as, and their session
CreateKeys == {<<"c1", "rig">>, <<"c1", "gpu">>}

CreateSessions == {"s1"}

\* the id generator (modelled from the specification, section 4.1):
\* next() returns a value never returned before, larger than all before it
NextStratumID == stratumID + 1

\* Client.Worker(name) (section 4.5): an instance registered under the
\* name, or nil
ClientHasWorker(c, name) == clientWorkers[c][name] # {}

\* Client.AddWorker (section 4.5): adds the instance under its name and
\* overwrites no prior instance
ClientAddWorker(c, name, w) ==
  [clientWorkers EXCEPT ![c][name] = @ \cup {w}]

\* lines 32-41 with the id of the registered instance of the same name
\* copied into the new instance
NewWorker_Alloc_CopyID(t) ==
  /\ pc[t].at = "idle"
  /\ Len(workers) < MaxWorkers
  /\ \E k \in CreateKeys, s \in CreateSessions :
       LET c == k[1]
           name == k[2]
           id == IF ClientHasWorker(c, name)
                   THEN workers[CHOOSE w \in clientWorkers[c][name] : TRUE].workerID
                   ELSE NextStratumID
       IN
       /\ stratumID' = NextStratumID
       /\ workers' = Append(workers, MakeWorker(id, name, c, s))
       /\ creation' = Append(creation, [copy |-> FALSE, fsDown |-> FALSE, mkdir |-> FALSE,
                                        logger |-> FALSE, result |-> "running"])
       /\ pc' = [pc EXCEPT ![t] = [at |-> "NW_check", w |-> Len(workers) + 1,
                                   c |-> c, name |-> name]]
  /\ UNCHANGED <<clientWorkers, fsFailing, nonCreateVars>>

\* newWorker, lines 32-41: draw an id and build the Worker
NewWorker_Alloc(t) ==
  /\ pc[t].at = "idle"
  /\ Len(workers) < MaxWorkers
  /\ \E k \in CreateKeys, s \in CreateSessions :
       LET c == k[1]  name == k[2] IN
       /\ stratumID' = NextStratumID
       /\ workers' = Append(workers, MakeWorker(NextStratumID, name, c, s))
       /\ creation' = Append(creation, [copy |-> FALSE, fsDown |-> FALSE, mkdir |-> FALSE,
                                        logger |-> FALSE, result |-> "running"])
       /\ pc' = [pc EXCEPT ![t] = [at |-> "NW_check", w |-> Len(workers) + 1,
                                   c |-> c, name |-> name]]
  /\ UNCHANGED <<clientWorkers, fsFailing, nonCreateVars>>

\* lines 43-46 with the test dropped: setup is attempted for copies too
NewWorker_Check_Always(t) ==
  /\ pc[t].at = "NW_check"
  /\ pc' = [pc EXCEPT ![t].at = "NW_mkdir"]
  /\ UNCHANGED <<workers, creation, clientWorkers, stratumID, fsFailing, nonCreateVars>>

\* lines 43-46: an original or a copy?  A copy is returned at once
NewWorker_Check(t) ==
  /\ pc[t].at = "NW_check"
  /\ IF ClientHasWorker(pc[t].c, pc[t].name)
       THEN /\ pc' = [pc EXCEPT ![t].at = "NW_returned"]
            /\ creation' = [creation EXCEPT ![pc[t].w].copy = TRUE,
                                            ![pc[t].w].fsDown = fsFailing,
                                            ![pc[t].w].result = "worker"]
       ELSE /\ pc' = [pc EXCEPT ![t].at = "NW_mkdir"]
            /\ UNCHANGED creation
  /\ UNCHANGED <<workers, clientWorkers, stratumID, fsFailing, nonCreateVars>>

\* lines 50-55: mkdirAll; its error is returned with no Worker
NewWorker_MkdirAll(t) ==
  /\ pc[t].at = "NW_mkdir"
  /\ IF fsFailing
       THEN /\ pc' = [pc EXCEPT ![t].at = "idle"]
            /\ creation' = [creation EXCEPT ![pc[t].w].mkdir = TRUE,
                                            ![pc[t].w].result = "error"]
       ELSE /\ pc' = [pc EXCEPT ![t].at = "NW_logger"]
            /\ creation' = [creation EXCEPT ![pc[t].w].mkdir = TRUE]
  /\ UNCHANGED <<workers, clientWorkers, stratumID, fsFailing, nonCreateVars>>

\* lines 57-61: w.log, err = newLogger(...); return w, err
NewWorker_NewLogger(t) ==
  /\ pc[t].at = "NW_logger"
  /\ IF fsFailing
       THEN /\ workers' = [workers EXCEPT ![pc[t].w].log = NoLogger]
            /\ creation' = [creation EXCEPT ![pc[t].w].logger = TRUE,
                                            ![pc[t].w].result = "worker+error"]
            /\ pc' = [pc EXCEPT ![t].at = "idle"]
       ELSE /\ workers' = [workers EXCEPT ![pc[t].w].log = "logger"]
            /\ creation' = [creation EXCEPT ![pc[t].w].logger = TRUE,
                                            ![pc[t].w].result = "worker"]
            /\ pc' = [pc EXCEPT ![t].at = "NW_returned"]
  /\ UNCHANGED <<clientWorkers, stratumID, fsFailing, nonCreateVars>>

\* the caller of a successful newWorker registers the instance with its
\* client (modelled from the specification, section 4.5)
Caller_AddWorker(t) ==
  /\ pc[t].at = "NW_returned"
  /\ clientWorkers' = ClientAddWorker(pc[t].c, pc[t].name, pc[t].w)
  /\ pc' = [pc EXCEPT ![t].at = "idle"]
  /\ UNCHANGED <<workers, creation, stratumID, fsFailing, nonCreateVars>>

\* the owning connection closes: the instance leaves its client's mapping
\* (modelled from the specification, section 3)
Disconnect(c, name, w) ==
  /\ w \in clientWorkers[c][name]
  /\ clientWorkers' = [clientWorkers EXCEPT ![c][name] = @ \ {w}]
  /\ UNCHANGED <<workers, pc, creation, stratumID, fsFailing, nonCreateVars>>

\* the filesystem provider starts or stops failing
FsToggle ==
  /\ fsFailing' = ~fsFailing
  /\ UNCHANGED <<workers, pc, creation, clientWorkers, stratumID, nonCreateVars>>

InitCreate ==
  /\ workers = << >>
  /\ creation = << >>
  /\ clientWorkers = [c \in Clients |-> [n \in Names |-> {}]]
  /\ stratumID = 0
  /\ fsFailing = FALSE
  /\ pc = [t \in CreateContexts |-> [at |-> "idle", w |-> 0, c |-> NoClient, name |-> ""]]
  /\ shifts = << NewShift >>
  /\ sessShift = [s \in {"s1"} |-> 1]
  /\ currentDifficulty = F_One
  /\ rotations = 0
  /\ returnedIn = << 0 >>
  /\ seqRun = TRUE
  /\ NoScanState
  /\ store = << >>
  /\ renter = NoRenter
  /\ api = NoRequest

NextCreate ==
  \/ \E t \in DOMAIN pc : NewWorker_Alloc(t)
  \/ \E t \in DOMAIN pc : NewWorker_Check(t)
  \/ \E t \in DOMAIN pc : NewWorker_MkdirAll(t)
  \/ \E t \in DOMAIN pc : NewWorker_NewLogger(t)
  \/ \E t \in DOMAIN pc : Caller_AddWorker(t)
  \/ \E c \in Clients, name \in Names, w \in 1..Len(workers) : Disconnect(c, name, w)
  \/ FsToggle

SpecCreate == InitCreate /\ [][NextCreate]_vars

\* the instances of (c, name) whose newWorker call ran the persistence
\* setup and returned the Worker without error
SetupRunners(c, name) ==
  { i \in 1..Len(workers) :
      /\ workers[i].parent = c /\ workers[i].name = name
      /\ creation[i].mkdir /\ creation[i].logger
      /\ creation[i].result = "worker" }

\* an instance that was registered with its client and has disconnected
Disconnected(i) ==
  /\ creation[i].result = "worker"
  /\ i \notin clientWorkers[workers[i].parent][workers[i].name]
  /\ \A t \in DOMAIN pc : ~(pc[t].at = "NW_returned" /\ pc[t].w = i)

(***************************************************************************)
(* C8: over any sequence or interleaving of worker creations for the same  *)
(* (client, name), two concurrent ones included, the persistence setup     *)
(* (mkdirAll and newLogger) is run by at most one of them: at most one     *)
(* instance of a (client, name) comes from a creation that ran the setup.  *)
(* (SpecCreate)                                                            *)
(***************************************************************************)
C8_SetupAtMostOnce ==
  \A k \in CreateKeys : Cardinality(SetupRunners(k[1], k[2])) <= 1

(***************************************************************************)
(* C9: when client.Worker(name) already returns an instance, newWorker     *)
(* calls neither mkdirAll nor newLogger and returns the new Worker with no *)
(* error, also while the filesystem provider is failing, and the step      *)
(* changes no field, session or counter of any existing instance.          *)
(* (SpecCreate)                                                            *)
(***************************************************************************)
C9_CopySkipsSetup ==
  [][\A t \in DOMAIN pc :
       (/\ pc[t].at = "NW_check"
        /\ pc'[t].at # "NW_check"
        /\ ClientHasWorker(pc[t].c, pc[t].name))
       => /\ pc'[t].at = "NW_returned"
          /\ creation'[pc[t].w].result = "worker"
          /\ ~creation'[pc[t].w].mkdir
          /\ ~creation'[pc[t].w].logger
          /\ workers' = workers
          /\ shifts' = shifts
          /\ sessShift' = sessShift
          /\ clientWorkers' = clientWorkers]_vars

C9_Witness ==
  \E i \in 1..Len(workers) :
    /\ creation[i].copy
    /\ creation[i].fsDown
    /\ creation[i].result = "worker"
    /\ ~creation[i].mkdir /\ ~creation[i].logger
    /\ \E j \in 1..Len(workers) :
         j # i /\ j \in clientWorkers[workers[i].parent][workers[i].name]

(***************************************************************************)
(* C10: every worker creation draws a fresh identifier: the ids of all     *)
(* Worker instances ever allocated (copies for an existing (client, name), *)
(* instances since disconnected and instances of failed creations          *)
(* included) strictly increase in allocation order, hence are pairwise     *)
(* distinct, and each is an id the generator has handed out.  (SpecCreate) *)
(***************************************************************************)
C10_FreshIDs ==
  /\ \A i, j \in 1..Len(workers) :
       i < j => workers[i].workerID < workers[j].workerID
  /\ \A i \in 1..Len(workers) : workers[i].workerID \in 1..stratumID
  /\ stratumID = Len(workers)

C10_Witness ==
  /\ Len(workers) = MaxWorkers
  /\ \E i \in 1..Len(workers) : Disconnected(i)
  /\ \E i \in 1..Len(workers) : creation[i].result = "error"
  /\ \E i \in 1..Len(workers) : creation[i].copy
  /\ \A i, j \in 1..Len(workers) : i # j => workers[i].workerID # workers[j].workerID

(***************************************************************************)
(* The per-worker lock, the accessors, and the CurrentDifficulty scan.     *)
(***************************************************************************)
MaxEvents == 2       \* calls and connection events issued in a scan run

ScanContexts == {1, 2}

ScanSessions == {"s1", "s2", "s3"}

\* Client.Name() (modelled from the specification, section 3)
ClientName(c) == IF c = "c1" THEN "alice" ELSE "bob"

\* the client and the worker the connection of a session authenticates as,
\* and the session's current difficulty
SessClient(s) == IF s = "s3" THEN "c2" ELSE "c1"

SessWorker(s) == IF s = "s1" THEN 1 ELSE IF s = "s2" THEN 2 ELSE 3

SessDifficulty(s) == IF s = "s2" THEN F_Tenth ELSE F_One

Unbound(s) == [Client |-> NoClient, CurrentWorker |-> 0, difficulty |-> SessDifficulty(s)]

\* sync.RWMutex: RLock is granted while no writer holds or awaits the lock;
\* Lock first excludes other writers and new readers, then waits for the
\* readers inside to leave
FreeLock == [writer |-> 0, readers |-> {}]

CanRLock(w) == wmu[w].writer = 0

RLock(t, w) == [wmu EXCEPT ![w].readers = @ \cup {t}]

RUnlock(t, w) == [wmu EXCEPT ![w].readers = @ \ {t}]

CanLock(w) == wmu[w].writer = 0

Lock(t, w) == [wmu EXCEPT ![w].writer = t]

Unlock(t, w) == [wmu EXCEPT ![w].writer = 0]

IdleCall ==
  [at |-> "idle", op |-> "none", w |-> 0, arg |-> "", ret |-> "",
   todo |-> {}, h |-> "", cn |-> "", hw |-> 0, hn |-> "",
   currentDiff |-> FZero, workerCount |-> 0, dirty |-> FALSE]

StartCall(op, w, arg, at) ==
  [IdleCall EXCEPT !.at = at, !.op = op, !.w = w, !.arg = arg]

\* a call that has returned: what it was, what it returned and, of a scan,
\* how many handlers it counted
Returned(t, ret) ==
  [IdleCall EXCEPT !.op = pc[t].op, !.ret = ret,
                   !.workerCount = pc[t].workerCount, !.dirty = pc[t].dirty]

\* the scan moves on to the next handler
NextHandler(p) ==
  [p EXCEPT !.at = "CD_next", !.h = "", !.cn = "", !.hw = 0, !.hn = ""]

\* positions of CurrentDifficulty between d.mu.Lock() and the return
InScan(t) ==
  pc[t].at \in {"CD_next", "CD_par_rlock", "CD_par_read", "CD_hw_rlock",
                "CD_hw_read", "CD_name_rlock", "CD_name_read"}

\* history: a scan in progress has seen a name, parent or binding change
MarkDirty(p) ==
  [u \in DOMAIN p |-> IF InScan(u) THEN [p[u] EXCEPT !.dirty = TRUE] ELSE p[u]]

\* an aborting call: the deferred d.mu.Unlock() runs while the panic unwinds
Panic(t) ==
  /\ pc' = [pc EXCEPT ![t] = [IdleCall EXCEPT !.at = "panic", !.op = pc[t].op,
                                               !.dirty = pc[t].dirty]]
  /\ dmu' = IF dmu = t THEN 0 ELSE dmu

(***************************************************************************)
(* Name, Parent, Session (lines 71-76, 84-89, 97-102).                     *)
(***************************************************************************)
Call_Getter(t) ==
  /\ pc[t].at = "idle"
  /\ events < MaxEvents
  /\ \E op \in {"Name", "Parent", "Session"}, w \in 1..Len(workers) :
       pc' = [pc EXCEPT ![t] = StartCall(op, w, "", "G_rlock")]
  /\ events' = events + 1
  /\ UNCHANGED <<workers, wmu, dmu, handlers, sess, nonScanVars>>

\* w.mu.RLock() granted although a writer holds or awaits the lock
Getter_RLock_PastWriter(t) ==
  /\ pc[t].at = "G_rlock"
  /\ wmu' = RLock(t, pc[t].w)
  /\ pc' = [pc EXCEPT ![t].at = "G_read"]
  /\ UNCHANGED <<workers, dmu, handlers, sess, events, nonScanVars>>

\* w.mu.RLock()
Getter_RLock(t) ==
  /\ pc[t].at = "G_rlock"
  /\ CanRLock(pc[t].w)
  /\ wmu' = RLock(t, pc[t].w)
  /\ pc' = [pc EXCEPT ![t].at = "G_read"]
  /\ UNCHANGED <<workers, dmu, handlers, sess, events, nonScanVars>>

FieldOf(op, w) ==
  IF op = "Name" THEN workers[w].name
  ELSE IF op = "Parent" THEN workers[w].parent
  ELSE workers[w].s

\* return w.wr.name / w.wr.parent / w.s, with the deferred w.mu.RUnlock()
Getter_Return(t) ==
  /\ pc[t].at = "G_read"
  /\ wmu' = RUnlock(t, pc[t].w)
  /\ pc' = [pc EXCEPT ![t] = Returned(t, FieldOf(pc[t].op, pc[t].w))]
  /\ UNCHANGED <<workers, dmu, handlers, sess, events, nonScanVars>>

(***************************************************************************)
(* SetName, SetParent, SetSession (lines 78-82, 91-95, 104-108).           *)
(***************************************************************************)
SetterArgs(op) ==
  IF op = "SetName" THEN Names
  ELSE IF op = "SetParent" THEN Clients
  ELSE DOMAIN sessShift \cup {NoSession}

Call_Setter(t) ==
  /\ pc[t].at = "idle"
  /\ events < MaxEvents
  /\ \E op \in {"SetName", "SetParent", "SetSession"}, w \in 1..Len(workers) :
       \E arg \in SetterArgs(op) :
         pc' = [pc EXCEPT ![t] = StartCall(op, w, arg, "S_lock")]
  /\ events' = events + 1
  /\ UNCHANGED <<workers, wmu, dmu, handlers, sess, nonScanVars>>

\* w.mu.Lock(), first half: exclude other writers and new readers
Setter_Lock(t) ==
  /\ pc[t].at = "S_lock"
  /\ CanLock(pc[t].w)
  /\ wmu' = Lock(t, pc[t].w)
  /\ pc' = [pc EXCEPT ![t].at = "S_wait"]
  /\ UNCHANGED <<workers, dmu, handlers, sess, events, nonScanVars>>

WriteField(op, w, arg) ==
  IF op = "SetName" THEN [workers EXCEPT ![w].name = arg]
  ELSE IF op = "SetParent" THEN [workers EXCEPT ![w].parent = arg]
  ELSE [workers EXCEPT ![w].s = arg]

\* w.mu.Lock(), second half: the readers have left and the lock is held
Setter_Enter(t) ==
  /\ pc[t].at = "S_wait"
  /\ wmu[pc[t].w].readers = {}
  /\ pc' = [pc EXCEPT ![t].at = "S_write"]
  /\ UNCHANGED <<workers, scanVars, nonScanVars>>

\* a string is two words: between the stores of an assignment to
\* w.wr.name the field holds neither the old nor the new name
TornName == "torn"

\* the assignment under the lock; a pointer (parent, s) is stored at once,
\* a name is completed by the second store
Setter_Write(t) ==
  /\ pc[t].at = "S_write"
  /\ workers' = WriteField(pc[t].op, pc[t].w,
                           IF pc[t].op = "SetName" THEN TornName ELSE pc[t].arg)
  /\ pc' = LET q == [pc EXCEPT ![t].at = "S_unlock"]
           IN  IF pc[t].op = "SetSession" THEN q ELSE MarkDirty(q)
  /\ UNCHANGED <<scanVars, nonScanVars>>

\* the assignment is complete; the deferred w.mu.Unlock() and the return
Setter_Return(t) ==
  /\ pc[t].at = "S_unlock"
  /\ workers' = WriteField(pc[t].op, pc[t].w, pc[t].arg)
  /\ wmu' = Unlock(t, pc[t].w)
  /\ pc' = LET q == [pc EXCEPT ![t] = Returned(t, "")]
           IN  IF pc[t].op = "SetSession" THEN q ELSE MarkDirty(q)
  /\ UNCHANGED <<dmu, handlers, sess, events, nonScanVars>>

(***************************************************************************)
(* CurrentDifficulty (lines 163-180), one action per shared access.        *)
(***************************************************************************)
Call_CurrentDifficulty(t) ==
  /\ pc[t].at = "idle"
  /\ events < MaxEvents
  /\ \E w \in 1..Len(workers) :
       pc' = [pc EXCEPT ![t] = StartCall("CurrentDifficulty", w, "", "CD_pool")]
  /\ events' = events + 1
  /\ UNCHANGED <<workers, wmu, dmu, handlers, sess, nonScanVars>>

\* line 164 with the worker's lock taken first and kept: the reversed order
CD_Pool_HoldsWorker(t) ==
  /\ pc[t].at = "CD_pool"
  /\ CanRLock(pc[t].w)
  /\ wmu' = RLock(t, pc[t].w)
  /\ pc' = [pc EXCEPT ![t].at = "CD_lock"]
  /\ UNCHANGED <<workers, dmu, handlers, sess, events, nonScanVars>>

\* line 164: w.wr.parent.Pool(), the field read without the worker's lock;
\* line 165: d := pool.dispatcher
CD_Pool(t) ==
  /\ pc[t].at = "CD_pool"
  /\ IF workers[pc[t].w].parent = NoClient
       THEN Panic(t)
       ELSE pc' = [pc EXCEPT ![t].at = "CD_lock"] /\ UNCHANGED dmu
  /\ UNCHANGED <<workers, wmu, handlers, sess, events, nonScanVars>>

\* lines 166-170 ranging over every session that ever connected
CD_Lock_AllSessions(t) ==
  /\ pc[t].at = "CD_lock"
  /\ dmu = 0
  /\ dmu' = t
  /\ pc' = [pc EXCEPT ![t].at = "CD_next", ![t].todo = DOMAIN sess,
                      ![t].currentDiff = FZero, ![t].workerCount = 0]
  /\ UNCHANGED <<workers, wmu, handlers, sess, events, nonScanVars>>

\* lines 166-170: d.mu.Lock(); the accumulators start at zero and the range
\* statement fixes the handlers to visit
CD_Lock(t) ==
  /\ pc[t].at = "CD_lock"
  /\ dmu = 0
  /\ dmu' = t
  /\ pc' = [pc EXCEPT ![t].at = "CD_next", ![t].todo = handlers,
                      ![t].currentDiff = FZero, ![t].workerCount = 0]
  /\ UNCHANGED <<workers, wmu, handlers, sess, events, nonScanVars>>

\* line 170-171: the next handler, in any order; h.s.Client != nil and the
\* left operand h.s.Client.Name()
CD_Next(t) ==
  /\ pc[t].at = "CD_next"
  /\ \E h \in pc[t].todo :
       pc' = IF sess[h].Client = NoClient
               THEN [pc EXCEPT ![t].todo = @ \ {h}]
               ELSE [pc EXCEPT ![t].todo = @ \ {h}, ![t].h = h,
                       ![t].at = "CD_par_rlock", ![t].cn = ClientName(sess[h].Client)]
  /\ UNCHANGED <<workers, scanVars, nonScanVars>>

\* line 171: w.Parent() takes w.mu.RLock()
CD_ParentRLock(t) ==
  /\ pc[t].at = "CD_par_rlock"
  /\ CanRLock(pc[t].w)
  /\ wmu' = RLock(t, pc[t].w)
  /\ pc' = [pc EXCEPT ![t].at = "CD_par_read"]
  /\ UNCHANGED <<workers, dmu, handlers, sess, events, nonScanVars>>

\* w.Parent() returning without the comparison of the client names
CD_ParentRead_AnyClient(t) ==
  /\ pc[t].at = "CD_par_read"
  /\ wmu' = RUnlock(t, pc[t].w)
  /\ pc' = [pc EXCEPT ![t].at = "CD_hw_rlock"]
  /\ UNCHANGED <<workers, dmu, handlers, sess, events, nonScanVars>>

\* line 171: w.Parent() returns with w.mu.RUnlock(); .Name() of the parent is
\* compared with the handler's client name, and && stops at a difference
CD_ParentRead(t) ==
  /\ pc[t].at = "CD_par_read"
  /\ wmu' = RUnlock(t, pc[t].w)
  /\ pc' = IF pc[t].cn = ClientName(workers[pc[t].w].parent)
             THEN [pc EXCEPT ![t].at = "CD_hw_rlock"]
             ELSE [pc EXCEPT ![t] = NextHandler(@)]
  /\ UNCHANGED <<workers, dmu, handlers, sess, events, nonScanVars>>

\* line 171: h.s.CurrentWorker.Name(): a nil CurrentWorker is dereferenced
\* at its mu; otherwise its mu.RLock()
CD_HWorkerRLock(t) ==
  /\ pc[t].at = "CD_hw_rlock"
  /\ IF sess[pc[t].h].CurrentWorker = 0
       THEN Panic(t) /\ UNCHANGED wmu
       ELSE /\ CanRLock(sess[pc[t].h].CurrentWorker)
            /\ wmu' = RLock(t, sess[pc[t].h].CurrentWorker)
            /\ pc' = [pc EXCEPT ![t].at = "CD_hw_read",
                                ![t].hw = sess[pc[t].h].CurrentWorker]
            /\ UNCHANGED dmu
  /\ UNCHANGED <<workers, handlers, sess, events, nonScanVars>>

\* the handler's worker name is read and its lock released
CD_HWorkerRead(t) ==
  /\ pc[t].at = "CD_hw_read"
  /\ wmu' = RUnlock(t, pc[t].hw)
  /\ pc' = [pc EXCEPT ![t].at = "CD_name_rlock", ![t].hn = workers[pc[t].hw].name]
  /\ UNCHANGED <<workers, dmu, handlers, sess, events, nonScanVars>>

\* line 171: w.Name() takes w.mu.RLock()
CD_NameRLock(t) ==
  /\ pc[t].at = "CD_name_rlock"
  /\ CanRLock(pc[t].w)
  /\ wmu' = RLock(t, pc[t].w)
  /\ pc' = [pc EXCEPT ![t].at = "CD_name_read"]
  /\ UNCHANGED <<workers, dmu, handlers, sess, events, nonScanVars>>

\* lines 171-174: the names are compared; a match adds the session's
\* difficulty and counts the handler
CD_NameRead(t) ==
  /\ pc[t].at = "CD_name_read"
  /\ wmu' = RUnlock(t, pc[t].w)
  /\ pc' = IF pc[t].hn = workers[pc[t].w].name
             THEN [pc EXCEPT ![t] = NextHandler(
                     [@ EXCEPT !.currentDiff = FAdd(@, sess[pc[t].h].difficulty),
                               !.workerCount = @ + 1])]
             ELSE [pc EXCEPT ![t] = NextHandler(@)]
  /\ UNCHANGED <<workers, dmu, handlers, sess, events, nonScanVars>>

\* lines 176-179 returning with d.mu still held
CD_Return_KeepsLock(t) ==
  /\ pc[t].at = "CD_next"
  /\ pc[t].todo = {}
  /\ pc' = [pc EXCEPT ![t] = Returned(t,
              IF pc[t].workerCount = 0 THEN FZero
              ELSE FDivInt(pc[t].currentDiff, pc[t].workerCount))]
  /\ UNCHANGED <<workers, wmu, dmu, handlers, sess, events, nonScanVars>>

\* lines 176-179 and the deferred d.mu.Unlock()
CD_Return(t) ==
  /\ pc[t].at = "CD_next"
  /\ pc[t].todo = {}
  /\ dmu' = 0
  /\ pc' = [pc EXCEPT ![t] = Returned(t,
              IF pc[t].workerCount = 0 THEN FZero
              ELSE FDivInt(pc[t].currentDiff, pc[t].workerCount))]
  /\ UNCHANGED <<workers, wmu, handlers, sess, events, nonScanVars>>

(***************************************************************************)
(* The connections' side (modelled from the specification, sections 3 and  *)
(* 4.6): a handler is registered on connection and removed on disconnect,  *)
(* both under the Dispatcher's lock; authentication binds the client to    *)
(* the session first and the worker afterwards.                            *)
(***************************************************************************)
Dispatcher_Add(s) ==
  /\ events < MaxEvents
  /\ s \notin handlers
  /\ dmu = 0
  /\ handlers' = handlers \cup {s}
  /\ sess' = [sess EXCEPT ![s] = Unbound(s)]
  /\ events' = events + 1
  /\ UNCHANGED <<workers, pc, wmu, dmu, nonScanVars>>

Dispatcher_Remove(s) ==
  /\ events < MaxEvents
  /\ s \in handlers
  /\ dmu = 0
  /\ handlers' = handlers \ {s}
  /\ events' = events + 1
  /\ UNCHANGED <<workers, pc, wmu, dmu, sess, nonScanVars>>

Session_AddClient(s) ==
  /\ events < MaxEvents
  /\ s \in handlers
  /\ sess[s].Client = NoClient
  /\ sess' = [sess EXCEPT ![s].Client = SessClient(s)]
  /\ pc' = MarkDirty(pc)
  /\ events' = events + 1
  /\ UNCHANGED <<workers, wmu, dmu, handlers, nonScanVars>>

Session_AddWorker(s) ==
  /\ events < MaxEvents
  /\ s \in handlers
  /\ sess[s].Client # NoClient
  /\ sess[s].CurrentWorker = 0
  /\ sess' = [sess EXCEPT ![s].CurrentWorker = SessWorker(s)]
  /\ pc' = MarkDirty(pc)
  /\ events' = events + 1
  /\ UNCHANGED <<workers, wmu, dmu, handlers, nonScanVars>>

\* how far a connection has come: not connected, connected, client bound,
\* worker bound
Stages == {"absent", "connected", "client", "bound"}

SessAt(s, stage) ==
  [Client |-> IF stage \in {"client", "bound"} THEN SessClient(s) ELSE NoClient,
   CurrentWorker |-> IF stage = "bound" THEN SessWorker(s) ELSE 0,
   difficulty |-> SessDifficulty(s)]

InitRegistry(stages, contexts) ==
  /\ workers = << MakeWorker(1, "rig", "c1", "s1"), MakeWorker(2, "rig", "c1", "s1"),
                  MakeWorker(3, "rig", "c2", "s1") >>
  /\ \E st \in [ScanSessions -> stages] :
       /\ handlers = {s \in ScanSessions : st[s] # "absent"}
       /\ sess = [s \in ScanSessions |-> SessAt(s, st[s])]
  /\ wmu = [w \in 1..3 |-> FreeLock]
  /\ dmu = 0
  /\ events = 0
  /\ pc = [t \in contexts |-> IdleCall]
  /\ shifts = << NewShift >>
  /\ sessShift = [s \in {"s1"} |-> 1]
  /\ currentDifficulty = F_One
  /\ rotations = 0
  /\ returnedIn = << 0 >>
  /\ seqRun = TRUE
  /\ clientWorkers = [c \in Clients |-> [n \in Names |->
                        IF n # "rig" THEN {} ELSE IF c = "c1" THEN {1, 2} ELSE {3}]]
  /\ stratumID = 3
  /\ fsFailing = FALSE
  /\ creation = << >>
  /\ store = << >>
  /\ renter = NoRenter
  /\ api = NoRequest

CD_Step(t) ==
  \/ CD_Pool(t)
  \/ CD_Lock(t)
  \/ CD_Next(t)
  \/ CD_ParentRLock(t)
  \/ CD_ParentRead(t)
  \/ CD_HWorkerRLock(t)
  \/ CD_HWorkerRead(t)
  \/ CD_NameRLock(t)
  \/ CD_NameRead(t)
  \/ CD_Return(t)

Accessor_Step(t) ==
  \/ Getter_RLock(t)
  \/ Getter_Return(t)
  \/ Setter_Lock(t)
  \/ Setter_Enter(t)
  \/ Setter_Write(t)
  \/ Setter_Return(t)

InitScan == InitRegistry(Stages, {1})

NextScan ==
  \/ \E t \in DOMAIN pc : Call_CurrentDifficulty(t)
  \/ \E t \in DOMAIN pc : Call_Setter(t)
  \/ \E t \in DOMAIN pc : CD_Step(t)
  \/ \E t \in DOMAIN pc : Setter_Lock(t)
  \/ \E t \in DOMAIN pc : Setter_Enter(t)
  \/ \E t \in DOMAIN pc : Setter_Write(t)
  \/ \E t \in DOMAIN pc : Setter_Return(t)
  \/ \E s \in ScanSessions : Dispatcher_Add(s)
  \/ \E s \in ScanSessions : Dispatcher_Remove(s)
  \/ \E s \in ScanSessions : Session_AddClient(s)
  \/ \E s \in ScanSessions : Session_AddWorker(s)

SpecScan == InitScan /\ [][NextScan]_vars

InitLocks == InitRegistry({"bound"}, ScanContexts)

NextLocks ==
  \/ \E t \in DOMAIN pc : Call_CurrentDifficulty(t)
  \/ \E t \in DOMAIN pc : Call_Getter(t)
  \/ \E t \in DOMAIN pc : Call_Setter(t)
  \/ \E t \in DOMAIN pc : CD_Step(t)
  \/ \E t \in DOMAIN pc : Accessor_Step(t)

SpecLocks == InitLocks /\ [][NextLocks]_vars

(***************************************************************************)
(* Properties of the scan.                                                 *)
(***************************************************************************)
\* the registered handlers bound to the client name and worker name of w
Matching(w) ==
  {h \in handlers :
     /\ sess[h].Client # NoClient
     /\ sess[h].CurrentWorker # 0
     /\ ClientName(sess[h].Client) = ClientName(workers[w].parent)
     /\ workers[sess[h].CurrentWorker].name = workers[w].name}

\* d1 + ... + dk in float64, for every order of the handlers
RECURSIVE SumsOf(_)
SumsOf(S) ==
  IF S = {} THEN {FZero}
  ELSE UNION {{FAdd(x, sess[h].difficulty) : x \in SumsOf(S \ {h})} : h \in S}

MeansOf(S) ==
  IF S = {} THEN {FZero} ELSE {FDivInt(x, Cardinality(S)) : x \in SumsOf(S)}

\* (1.0 + 0.1) / 2 = 0x1199999999999A * 2^-53
F_MeanOneTenth == FloatOfHex(<<1,1,9,9,9,9,9,9,9,9,9,9,9,10>>, -53)

\* the step of t is the return of its scan
ScanReturns(t) ==
  /\ pc[t].at = "CD_next"
  /\ pc[t].todo = {}
  /\ pc'[t].at = "idle"

\* the step of t ends its scan, by a return or by an abort
ScanEnds(t) == InScan(t) /\ pc'[t].at \in {"idle", "panic"}

C6_ZeroMatchReturnsZero ==
  [][\A t \in DOMAIN pc :
       (ScanEnds(t) /\ ~pc[t].dirty /\ Matching(pc[t].w) = {}) =>
          (pc'[t].at = "idle" /\ pc'[t].ret = FZero)]_vars

\* the worker locks t holds or has announced a write on
Holds(t) == {w \in DOMAIN wmu : t \in wmu[w].readers \/ wmu[w].writer = t}

ThreadStep(t) == CD_Step(t) \/ Accessor_Step(t)

\* t is in a call and the lock operation it stands at cannot be granted
Waits(t) ==
  \/ pc[t].at \in {"G_rlock", "CD_par_rlock", "CD_name_rlock"} /\ ~CanRLock(pc[t].w)
  \/ /\ pc[t].at = "CD_hw_rlock"
     /\ sess[pc[t].h].CurrentWorker # 0
     /\ ~CanRLock(sess[pc[t].h].CurrentWorker)
  \/ pc[t].at = "S_lock" /\ ~CanLock(pc[t].w)
  \/ pc[t].at = "S_wait" /\ wmu[pc[t].w].readers # {}
  \/ pc[t].at = "CD_lock" /\ dmu # 0

\* the positions at a lock operation, and the steps taken from them
AtLock(t) ==
  pc[t].at \in {"G_rlock", "S_lock", "S_wait", "CD_lock", "CD_par_rlock",
                "CD_hw_rlock", "CD_name_rlock"}

LockStep(t) ==
  \/ Getter_RLock(t)
  \/ Setter_Lock(t)
  \/ Setter_Enter(t)
  \/ CD_Lock(t)
  \/ CD_ParentRLock(t)
  \/ CD_HWorkerRLock(t)
  \/ CD_NameRLock(t)

\* Waits holds exactly where the lock operation of t is not enabled; the
\* other steps of a call depend on the position of t alone
WaitsIsDisabled ==
  \A t \in DOMAIN pc :
    IF AtLock(t) THEN Waits(t) <=> ~ENABLED LockStep(t) ELSE ~Waits(t)

\* C7: d.mu is requested and taken while holding no worker lock, a scan
\* holds a worker lock only inside d.mu, a call that is over holds nothing,
\* and while any call is in progress some call in progress can take a step
\* (it is not waiting, and waiting is exactly not being able to step).
C7_LockOrdering ==
  /\ WaitsIsDisabled
  /\ \A t \in DOMAIN pc : pc[t].at \in {"CD_pool", "CD_lock"} => Holds(t) = {}
  /\ \A t \in DOMAIN pc :
       (pc[t].op = "CurrentDifficulty" /\ Holds(t) # {}) => dmu = t
  /\ \A t \in DOMAIN pc : ~InFlight(t) => (Holds(t) = {} /\ dmu # t)
  /\ (\E t \in DOMAIN pc : InFlight(t)) =>
       (\E t \in DOMAIN pc : InFlight(t) /\ ~Waits(t))

\* a scan holds d.mu and a worker's read lock while another context has
\* announced a write on that worker, and a third party is not needed for
\* either to go on
C7_Witness ==
  \E t \in DOMAIN pc, u \in DOMAIN pc, w \in DOMAIN wmu :
    /\ t # u
    /\ dmu = t /\ t \in wmu[w].readers
    /\ wmu[w].writer = u
    /\ pc[u].at = "S_wait"

(***************************************************************************)
(* BlocksFound and IncrementBlocksFound (lines 148-155).  The persistence  *)
(* layer (modelled from the specification, section 6) receives the worker  *)
(* record {workerID, name, blocksFound, parent name}; a write may fail,    *)
(* the failure is logged and the call goes on.  The calls on the worker    *)
(* instances come from one context at a time (section 5, shared-resource   *)
(* policy); instances are created concurrently by another context.         *)
(***************************************************************************)
\* func (w *Worker) BlocksFound() uint64 { return w.wr.blocksFound }
BlocksFound(w) == workers[w].blocksFound

\* the instances a newWorker call has handed to its caller
Created == {w \in 1..Len(workers) : creation[w].result = "worker"}

\* line 153 adding the block to every instance of the same (client, name)
IncrementBlocksFound_Inc_AllSiblings(t) ==
  /\ pc[t].at = "idle"
  /\ pc[t].left > 0
  /\ \E w \in Created :
       /\ workers' = [v \in DOMAIN workers |->
                        IF workers[v].parent = workers[w].parent /\ workers[v].name = workers[w].name
                          THEN [workers[v] EXCEPT !.blocksFound = @ + 1]
                          ELSE workers[v]]
       /\ pc' = [pc EXCEPT ![t].at = "IBF_update", ![t].w = w]
  /\ UNCHANGED <<shareVars, nonShareVars>>

\* line 153 adding two
IncrementBlocksFound_Inc_Twice(t) ==
  /\ pc[t].at = "idle"
  /\ pc[t].left > 0
  /\ \E w \in Created :
       /\ workers' = [workers EXCEPT ![w].blocksFound = @ + 2]
       /\ pc' = [pc EXCEPT ![t].at = "IBF_update", ![t].w = w]
  /\ UNCHANGED <<shareVars, nonShareVars>>

\* IncrementBlocksFound, entry and line 153: w.wr.blocksFound++
IncrementBlocksFound_Inc(t) ==
  /\ pc[t].at = "idle"
  /\ pc[t].left > 0
  /\ \E w \in Created :
       /\ workers' = [workers EXCEPT ![w].blocksFound = @ + 1]
       /\ pc' = [pc EXCEPT ![t].at = "IBF_update", ![t].w = w]
  /\ UNCHANGED <<shareVars, nonShareVars>>

\* the record updateWorkerRecord hands to the persistence layer
WorkerRecordOf(w, ok) ==
  [w |-> w, workerID |-> workers[w].workerID, name |-> workers[w].name,
   blocksFound |-> workers[w].blocksFound, parent |-> workers[w].parent, ok |-> ok]

\* line 154 undoing the increment when the write fails
IncrementBlocksFound_Update_Rollback(t) ==
  /\ pc[t].at = "IBF_update"
  /\ \E ok \in BOOLEAN :
       /\ store' = Append(store, WorkerRecordOf(pc[t].w, ok))
       /\ workers' = IF ok THEN workers
                     ELSE [workers EXCEPT ![pc[t].w].blocksFound = @ - 1]
  /\ pc' = [pc EXCEPT ![t].at = "idle", ![t].left = @ - 1]
  /\ UNCHANGED <<shareVars, createVars, scanVars, renterVars, apiVars>>

\* line 154: w.updateWorkerRecord(), synchronous, succeeding or failing;
\* then the return
IncrementBlocksFound_Update(t) ==
  /\ pc[t].at = "IBF_update"
  /\ \E ok \in BOOLEAN : store' = Append(store, WorkerRecordOf(pc[t].w, ok))
  /\ pc' = [pc EXCEPT ![t].at = "idle", ![t].left = @ - 1]
  /\ UNCHANGED <<workers, shareVars, createVars, scanVars, renterVars, apiVars>>

BlockContexts == {1}

SiblingContexts == {2}

InitBlocks ==
  /\ workers = << MakeWorker(1, "rig", "c1", "s1") >>
  /\ creation = << [copy |-> FALSE, fsDown |-> FALSE, mkdir |-> TRUE,
                     logger |-> TRUE, result |-> "worker"] >>
  /\ clientWorkers = [c \in Clients |-> [n \in Names |-> IF c = "c1" /\ n = "rig" THEN {1} ELSE {}]]
  /\ stratumID = 1
  /\ fsFailing = FALSE
  /\ pc = [t \in BlockContexts \cup SiblingContexts |->
             IF t \in BlockContexts
               THEN [at |-> "idle", w |-> 0, left |-> KCalls, sh |-> 0]
               ELSE [at |-> "idle", w |-> 0, c |-> NoClient, name |-> ""]]
  /\ shifts = << NewShift >>
  /\ sessShift = [s \in {"s1"} |-> 1]
  /\ currentDifficulty = F_One
  /\ rotations = 0
  /\ returnedIn = << 0 >>
  /\ seqRun = TRUE
  /\ NoScanState
  /\ store = << >>
  /\ renter = NoRenter
  /\ api = NoRequest

NextBlocks ==
  \/ \E t \in BlockContexts : IncrementBlocksFound_Inc(t)
  \/ \E t \in BlockContexts : IncrementBlocksFound_Update(t)
  \/ \E t \in SiblingContexts : NewWorker_Alloc(t)
  \/ \E t \in SiblingContexts : NewWorker_Check(t)
  \/ \E t \in SiblingContexts : NewWorker_MkdirAll(t)
  \/ \E t \in SiblingContexts : NewWorker_NewLogger(t)
  \/ \E t \in SiblingContexts : Caller_AddWorker(t)

SpecBlocks == InitBlocks /\ [][NextBlocks]_vars

\* the records of instance w the persistence layer has been handed, in order
WritesOf(w) == SelectSeq(store, LAMBDA r : r.w = w)

\* an IncrementBlocksFound call on w stands between lines 153 and 154
UpdatePending(w) == \E t \in BlockContexts : pc[t].at = "IBF_update" /\ pc[t].w = w

\* C11: every completed IncrementBlocksFound call made exactly one write;
\* the i-th record written for an instance carries blocksFound = i; and
\* BlocksFound() is the number of calls made on the instance.
C11_BlocksFoundMonotonic ==
  /\ \A t \in BlockContexts : Len(store) = KCalls - pc[t].left
  /\ \A w \in 1..Len(workers) :
       /\ \A i \in 1..Len(WritesOf(w)) : WritesOf(w)[i].blocksFound = i
       /\ BlocksFound(w) = Len(WritesOf(w)) + (IF UpdatePending(w) THEN 1 ELSE 0)

\* three calls on the first instance have returned
C11_Witness ==
  /\ \A t \in BlockContexts : pc[t].at = "idle"
  /\ Len(WritesOf(1)) = 3
  /\ BlocksFound(1) = 3

\* C16: the step of updateWorkerRecord whose write fails returns normally
\* and changes no Worker; blocksFound stays one above the calls made on the
\* instance before.
C16_FailedWriteNonFatal ==
  [][\A t \in BlockContexts :
       (pc[t].at = "IBF_update" /\ Len(store') > Len(store) /\ ~store'[Len(store')].ok) =>
          /\ pc'[t].at = "idle"
          /\ workers' = workers
          /\ workers'[pc[t].w].blocksFound = Len(WritesOf(pc[t].w)) + 1]_vars

\* a write failed and the next call on the same instance wrote the next value
C16_Witness ==
  /\ Len(store) = 2
  /\ ~store[1].ok /\ store[1].blocksFound = 1
  /\ store[2].w = store[1].w /\ store[2].blocksFound = 2
  /\ BlocksFound(store[1].w) = 2
  /\ \A t \in BlockContexts : pc[t].at = "idle"

\* C18: a step changes blocksFound of an instance only by entering
\* IncrementBlocksFound on that very instance, and an instance that comes
\* into being starts with blocksFound = 0.
C18_BlocksFoundPerInstance ==
  [][\A w \in 1..Len(workers') :
       IF w > Len(workers)
         THEN workers'[w].blocksFound = 0
         ELSE workers'[w].blocksFound # workers[w].blocksFound =>
                \E t \in BlockContexts :
                  pc[t].at = "idle" /\ pc'[t].at = "IBF_update" /\ pc'[t].w = w]_vars

\* two instances of one (client, name), blocks counted on the first only
C18_Witness ==
  /\ Len(workers) >= 2
  /\ workers[2].parent = workers[1].parent /\ workers[2].name = workers[1].name
  /\ creation[2].copy /\ creation[2].result = "worker"
  /\ BlocksFound(1) = 2
  /\ BlocksFound(2) = 0

(***************************************************************************)
(* What newWorker hands back.                                              *)
(***************************************************************************)
\* C15: no newWorker call returns a Worker together with an error: a call
\* whose mkdirAll or newLogger failed returns the error alone.
C15_WorkerIffNoError ==
  \A i \in 1..Len(creation) :
    /\ creation[i].result # "worker+error"
    /\ (creation[i].result = "worker") =>
         (creation[i].copy \/ (creation[i].mkdir /\ creation[i].logger))

(***************************************************************************)
(* The accessors' critical sections.                                       *)
(***************************************************************************)
\* t is inside the critical section of a setter of worker w
InSetter(t, w) == pc[t].at \in {"S_write", "S_unlock"} /\ pc[t].w = w

\* the values a field can have been given by newWorker or a completed setter
FieldValues(op) ==
  IF op = "Name" THEN Names
  ELSE IF op = "Parent" THEN Clients
  ELSE DOMAIN sessShift \cup {NoSession}

\* C12: while a setter of a worker is inside its critical section it holds
\* the lock as the writer, no reader and no other setter of that worker is
\* inside; and what a getter has returned is a value given to the field by
\* newWorker or by a completed setter, never a half-written one.
C12_AccessorsExclusive ==
  /\ \A w \in DOMAIN wmu : \A t \in DOMAIN pc :
       InSetter(t, w) =>
         /\ wmu[w].writer = t
         /\ wmu[w].readers = {}
         /\ \A u \in DOMAIN pc : InSetter(u, w) => u = t
  /\ \A t \in DOMAIN pc :
       (pc[t].at = "idle" /\ pc[t].op \in {"Name", "Parent", "Session"}) =>
         (pc[t].ret # TornName /\ pc[t].ret \in FieldValues(pc[t].op))
  /\ \A t \in DOMAIN pc : pc[t].hn # TornName

\* two getters are inside the lock of one worker at the same time
C12_Witness ==
  \E w \in DOMAIN wmu, t \in DOMAIN pc, u \in DOMAIN pc :
    /\ t # u
    /\ wmu[w].readers = {t, u}
    /\ pc[t].at = "G_read" /\ pc[u].at = "G_read"

(***************************************************************************)
(* The accounting methods of lines 110-160 besides IncrementShares, and    *)
(* Online; all of them called by the connection context that owns the      *)
(* worker, which also rebinds it with SetSession.                          *)
(***************************************************************************)
AccountingReads == {"SharesThisBlock", "InvalidShares", "StaleShares",
                    "LastShareTime", "CumulativeDifficulty"}

AccountingWrites == {"IncrementInvalidShares", "IncrementStaleShares", "SetLastShareTime"}

\* the time handed to SetLastShareTime
ShareTime == 1

\* entry and the receiver w.s.Shift() of the method
Accounting_Shift(t) ==
  /\ pc[t].at = "idle"
  /\ pc[t].left > 0
  /\ \E op \in AccountingReads \cup AccountingWrites :
       IF workers[pc[t].w].s = NoSession
         THEN pc' = [pc EXCEPT ![t].at = "panic", ![t].op = op]
         ELSE pc' = [pc EXCEPT ![t].at = "AC_apply", ![t].op = op,
                               ![t].sh = SessionShift(workers[pc[t].w].s)]
  /\ UNCHANGED <<workers, shareVars, nonShareVars>>

\* what a reading method returns from the shift obtained
ShiftRead(op, sh) ==
  IF op = "SharesThisBlock" THEN sh.shares
  ELSE IF op = "InvalidShares" THEN sh.invalid
  ELSE IF op = "StaleShares" THEN sh.stale
  ELSE IF op = "LastShareTime" THEN sh.lastShareTime
  ELSE sh.cumulativeDifficulty

\* what a writing method does to the shift obtained
ShiftWrite(op, sh) ==
  IF op = "IncrementInvalidShares" THEN ShiftIncrementInvalid(sh)
  ELSE IF op = "IncrementStaleShares" THEN ShiftIncrementStale(sh)
  ELSE [sh EXCEPT !.lastShareTime = ShareTime]

\* a writing method that also calls IncrementStale() on the shift
Accounting_Apply_AlsoStale(t) ==
  /\ pc[t].at = "AC_apply"
  /\ IF pc[t].op \in AccountingReads
       THEN /\ pc' = [pc EXCEPT ![t].at = "idle", ![t].left = @ - 1,
                                ![t].ret = ShiftRead(pc[t].op, shifts[pc[t].sh])]
            /\ UNCHANGED shifts
       ELSE /\ pc' = [pc EXCEPT ![t].at = "idle", ![t].left = @ - 1, ![t].ret = 0]
            /\ shifts' = [shifts EXCEPT ![pc[t].sh] =
                            ShiftIncrementStale(ShiftWrite(pc[t].op, @))]
  /\ UNCHANGED <<workers, sessShift, currentDifficulty, rotations, returnedIn, seqRun, nonShareVars>>

\* the method of the Shift is called and the Worker method returns
Accounting_Apply(t) ==
  /\ pc[t].at = "AC_apply"
  /\ IF pc[t].op \in AccountingReads
       THEN /\ pc' = [pc EXCEPT ![t].at = "idle", ![t].left = @ - 1,
                                ![t].ret = ShiftRead(pc[t].op, shifts[pc[t].sh])]
            /\ UNCHANGED shifts
       ELSE /\ pc' = [pc EXCEPT ![t].at = "idle", ![t].left = @ - 1, ![t].ret = 0]
            /\ shifts' = [shifts EXCEPT ![pc[t].sh] = ShiftWrite(pc[t].op, @)]
  /\ UNCHANGED <<workers, sessShift, currentDifficulty, rotations, returnedIn, seqRun, nonShareVars>>

\* Online(), lines 182-184: one read of w.s
Call_Online(t) ==
  /\ pc[t].at = "idle"
  /\ pc[t].left > 0
  /\ pc' = [pc EXCEPT ![t].op = "Online", ![t].ret = Online(pc[t].w), ![t].left = @ - 1]
  /\ UNCHANGED <<workers, shareVars, nonShareVars>>

AccountContexts == {1}

RebindContexts == {2}

\* one worker, created with session s1 or with none; sessions s1 and s2
\* with a shift each
InitAccount ==
  /\ \E s \in {"s1", NoSession} : workers = << MakeWorker(1, "rig", "c1", s) >>
  /\ shifts = << NewShift, NewShift >>
  /\ sessShift = [s \in {"s1", "s2"} |-> IF s = "s1" THEN 1 ELSE 2]
  /\ currentDifficulty = F_One
  /\ pc = [t \in AccountContexts \cup RebindContexts |->
             IF t \in AccountContexts
               THEN [at |-> "idle", w |-> 1, left |-> KCalls, sh |-> 0, op |-> "none", ret |-> 0]
               ELSE IdleCall]
  /\ rotations = 0
  /\ returnedIn = << 0, 0 >>
  /\ seqRun = TRUE
  /\ clientWorkers = [c \in Clients |-> [n \in Names |-> IF c = "c1" /\ n = "rig" THEN {1} ELSE {}]]
  /\ stratumID = 1
  /\ fsFailing = FALSE
  /\ creation = << [copy |-> FALSE, fsDown |-> FALSE, mkdir |-> TRUE,
                     logger |-> TRUE, result |-> "worker"] >>
  /\ wmu = << FreeLock >>
  /\ dmu = 0
  /\ handlers = {}
  /\ sess = << >>
  /\ events = 0
  /\ store = << >>
  /\ renter = NoRenter
  /\ api = NoRequest

\* the calls of one connection context: the next begins when the last is over
NextAccount ==
  \/ Quiescent /\ \E t \in AccountContexts : IncrementShares_Shift1(t)
  \/ \E t \in AccountContexts : IncrementShares_Inc(t)
  \/ \E t \in AccountContexts : IncrementShares_Shift2(t)
  \/ \E t \in AccountContexts : IncrementShares_Cum(t)
  \/ Quiescent /\ \E t \in AccountContexts : Accounting_Shift(t)
  \/ \E t \in AccountContexts : Accounting_Apply(t)
  \/ Quiescent /\ \E t \in AccountContexts : Call_Online(t)
  \/ Quiescent /\ \E t \in RebindContexts : Call_Setter(t)
  \/ \E t \in RebindContexts : Setter_Lock(t)
  \/ \E t \in RebindContexts : Setter_Enter(t)
  \/ \E t \in RebindContexts : Setter_Write(t)
  \/ \E t \in RebindContexts : Setter_Return(t)

SpecAccount == InitAccount /\ [][NextAccount]_vars

\* the step of t is a call of Online()
OnlineReturns(t) ==
  /\ pc[t].at = "idle" /\ pc'[t].at = "idle"
  /\ pc'[t].left = pc[t].left - 1
  /\ pc'[t].op = "Online"

\* C13: Online() returns true exactly when Session() would return a
\* session: after creation with or without one and after any SetSession.
C13_OnlineIffSession ==
  [][\A t \in AccountContexts :
       OnlineReturns(t) =>
         (pc'[t].ret <=> FieldOf("Session", pc[t].w) # NoSession)]_vars

\* Online() has returned false after SetSession(nil) unbound a worker that
\* accounted a share while bound
C13_Witness ==
  \E t \in AccountContexts, u \in RebindContexts :
    /\ pc[t].at = "idle" /\ pc[t].op = "Online" /\ pc[t].ret = FALSE
    /\ pc[u].at = "idle" /\ pc[u].op = "SetSession"
    /\ workers[pc[t].w].s = NoSession
    /\ shifts[1].shares = 1

\* C14: no accounting method aborts, whatever the worker's state.
C14_NoAccountingAbort == \A t \in AccountContexts : pc[t].at # "panic"

\* the step is made by a setter of context u
SetterStep(u) == pc[u].at \in {"S_lock", "S_wait", "S_write", "S_unlock"}

\* C17: no step of SetSession changes a shift or the shift a session has;
\* a step that changes a shift changes only the current shift of the
\* session bound to the worker; and a reading method returns the value of
\* that shift.
C17_RebindKeepsOldShift ==
  [][/\ \A u \in RebindContexts :
          SetterStep(u) => (shifts' = shifts /\ sessShift' = sessShift)
     /\ \A t \in AccountContexts :
          /\ shifts' # shifts =>
               /\ workers[pc[t].w].s # NoSession
               /\ \A i \in 1..Len(shifts) :
                    i # SessionShift(workers[pc[t].w].s) => shifts'[i] = shifts[i]
          /\ (pc[t].at = "AC_apply" /\ pc[t].op \in AccountingReads) =>
               pc'[t].ret = ShiftRead(pc[t].op, shifts[SessionShift(workers[pc[t].w].s)])]_vars

\* rebound from s1 to s2 between two IncrementShares calls: each session's
\* shift holds the one share accounted while it was bound
C17_Witness ==
  \E t \in AccountContexts, u \in RebindContexts :
    /\ pc[t].at = "idle" /\ pc[u].at = "idle" /\ pc[u].op = "SetSession"
    /\ workers[pc[t].w].s = "s2"
    /\ shifts[SessionShift("s1")].shares = 1
    /\ shifts[SessionShift("s2")].shares = 1
    /\ shifts[SessionShift("s2")].cumulativeDifficulty = currentDifficulty

(***************************************************************************)
(* newRenter (lines 672-712).  An argument is present (TRUE) or nil;       *)
(* initPersist succeeds or fails; a loop started with go begins to run at  *)
(* some later moment.                                                      *)
(***************************************************************************)
RenterLoops == {"threadedRepairLoop", "threadedDownloadLoop", "threadedQueueRepairs"}

NoLoops == [l \in RenterLoops |-> "none"]

\* the call newRenter(cs, tpool, hdb, hc, persistDir)
NewRenter_Call ==
  /\ renter.at = "idle"
  /\ \E cs \in BOOLEAN, tpool \in BOOLEAN, hdb \in BOOLEAN, hc \in BOOLEAN, persistFails \in BOOLEAN :
       renter' = [at |-> "NR_cs", cs |-> cs, tpool |-> tpool, hdb |-> hdb, hc |-> hc,
                  persistFails |-> persistFails, built |-> FALSE, workerPool |-> 0,
                  loops |-> NoLoops, ret |-> "none", err |-> "none"]
  /\ UNCHANGED nonRenterVars

NewRenter_Return(ret, err) ==
  [renter EXCEPT !.at = "returned", !.ret = ret, !.err = err]

\* lines 673-675
NewRenter_CheckCS ==
  /\ renter.at = "NR_cs"
  /\ renter' = IF ~renter.cs THEN NewRenter_Return("nil", "errNilCS")
               ELSE [renter EXCEPT !.at = "NR_tpool"]
  /\ UNCHANGED nonRenterVars

\* lines 676-678
NewRenter_CheckTpool ==
  /\ renter.at = "NR_tpool"
  /\ renter' = IF ~renter.tpool THEN NewRenter_Return("nil", "errNilTpool")
               ELSE [renter EXCEPT !.at = "NR_hc"]
  /\ UNCHANGED nonRenterVars

\* lines 679-681
NewRenter_CheckContractor ==
  /\ renter.at = "NR_hc"
  /\ renter' = IF ~renter.hc THEN NewRenter_Return("nil", "errNilContractor")
               ELSE [renter EXCEPT !.at = "NR_hdb"]
  /\ UNCHANGED nonRenterVars

\* lines 682-685: the body of "if hdb == nil" is a comment
NewRenter_CheckHdb ==
  /\ renter.at = "NR_hdb"
  /\ renter' = [renter EXCEPT !.at = "NR_persist"]
  /\ UNCHANGED nonRenterVars

\* lines 687-703: the Renter is built and initPersist called
NewRenter_InitPersist ==
  /\ renter.at = "NR_persist"
  /\ renter' = IF renter.persistFails
                 THEN [NewRenter_Return("nil", "errPersist") EXCEPT !.built = TRUE]
                 ELSE [renter EXCEPT !.at = "NR_pool", !.built = TRUE]
  /\ UNCHANGED nonRenterVars

\* line 706: r.updateWorkerPool()
NewRenter_UpdateWorkerPool ==
  /\ renter.at = "NR_pool"
  /\ renter' = [renter EXCEPT !.at = "NR_go", !.workerPool = @ + 1]
  /\ UNCHANGED nonRenterVars

\* the loop the next go statement of lines 707-709 starts
NextLoop ==
  IF renter.loops["threadedRepairLoop"] = "none" THEN "threadedRepairLoop"
  ELSE IF renter.loops["threadedDownloadLoop"] = "none" THEN "threadedDownloadLoop"
  ELSE "threadedQueueRepairs"

\* lines 707-709, one go statement at a time
NewRenter_Go ==
  /\ renter.at = "NR_go"
  /\ \E l \in RenterLoops : renter.loops[l] = "none"
  /\ renter' = [renter EXCEPT !.loops[NextLoop] = "started"]
  /\ UNCHANGED nonRenterVars

\* line 710: return r, nil
NewRenter_ReturnRenter ==
  /\ renter.at = "NR_go"
  /\ \A l \in RenterLoops : renter.loops[l] # "none"
  /\ renter' = NewRenter_Return("renter", "none")
  /\ UNCHANGED nonRenterVars

\* a started loop begins to run
Loop_Run(l) ==
  /\ renter.at # "idle"
  /\ renter.loops[l] = "started"
  /\ renter' = [renter EXCEPT !.loops[l] = "running"]
  /\ UNCHANGED nonRenterVars

InitRenter ==
  /\ renter = NoRenter
  /\ api = NoRequest
  /\ workers = << >>
  /\ pc = << >>
  /\ shifts = << >>
  /\ sessShift = << >>
  /\ currentDifficulty = F_One
  /\ rotations = 0
  /\ returnedIn = << >>
  /\ seqRun = TRUE
  /\ clientWorkers = [c \in Clients |-> [n \in Names |-> {}]]
  /\ stratumID = 0
  /\ fsFailing = FALSE
  /\ creation = << >>
  /\ NoScanState
  /\ store = << >>

NextRenter ==
  \/ NewRenter_Call
  \/ NewRenter_CheckCS
  \/ NewRenter_CheckTpool
  \/ NewRenter_CheckContractor
  \/ NewRenter_CheckHdb
  \/ NewRenter_InitPersist
  \/ NewRenter_UpdateWorkerPool
  \/ NewRenter_Go
  \/ NewRenter_ReturnRenter
  \/ \E l \in RenterLoops : Loop_Run(l)

SpecRenter == InitRenter /\ [][NextRenter]_vars

\* the errors that name an absent collaborator of the call
NilErrors ==
  (IF renter.cs THEN {} ELSE {"errNilCS"})
    \cup (IF renter.tpool THEN {} ELSE {"errNilTpool"})
    \cup (IF renter.hc THEN {} ELSE {"errNilContractor"})
    \cup (IF renter.hdb THEN {} ELSE {"errNilHdb"})

\* C20: a newRenter call given a nil consensus set, transaction pool,
\* contractor or hostdb builds nothing past its checks, starts no loop, and
\* returns no Renter and the error of an absent collaborator.
C20_NilCollaboratorFails ==
  (renter.at # "idle" /\ NilErrors # {}) =>
     /\ \A l \in RenterLoops : renter.loops[l] = "none"
     /\ renter.ret # "renter"
     /\ renter.at = "returned" => (renter.ret = "nil" /\ renter.err \in NilErrors)

(***************************************************************************)
(* Connection teardown.                                                    *)
(***************************************************************************)
\* the handlers a scan in progress has yet to examine or is examining
Examined(t) == pc[t].todo \cup (IF pc[t].h = "" THEN {} ELSE {pc[t].h})

\* C19: a scan examines and counts registered handlers only, so a handler
\* removed before the scan is in neither the sum nor the count; and the
\* step that removes a handler leaves every session and shift as it was.
C19_RemovedHandlerExcluded ==
  /\ [](\A t \in DOMAIN pc :
          InScan(t) => /\ Examined(t) \subseteq handlers
                       /\ pc[t].workerCount + Cardinality(Examined(t)) <= Cardinality(handlers))
  /\ [][(handlers' # handlers /\ handlers' \subseteq handlers) =>
          (sess' = sess /\ shifts' = shifts /\ sessShift' = sessShift)]_vars

\* the handler of a second connection of worker rig was removed; the scan
\* made afterwards counted the one handler left, and the removed handler's
\* session still has its worker and difficulty
C19_Witness ==
  \E t \in DOMAIN pc :
    /\ pc[t].at = "idle" /\ pc[t].op = "CurrentDifficulty" /\ ~pc[t].dirty
    /\ pc[t].workerCount = 1 /\ pc[t].ret = F_One
    /\ handlers = {"s1", "s3"}
    /\ sess["s2"].CurrentWorker = 2 /\ sess["s2"].difficulty = F_Tenth
    /\ sess["s2"].Client = sess["s1"].Client
    /\ workers[2].name = workers[1].name


(***************************************************************************)
(* C21: one IncrementShares(d) call adds its share and its difficulty to   *)
(* the same Shift.  Under every interleaving with Rotate(), whenever no    *)
(* increment is in flight, each shift (Finalized or Active) holds as       *)
(* cumulative difficulty the sum of d over exactly the shares it counted.  *)
(* (SpecRotate)                                                            *)
(***************************************************************************)
C21_ShareAndDifficultySameShift ==
  Quiescent =>
    \A i \in 1..Len(shifts) :
      shifts[i].cumulativeDifficulty = FSumN(shifts[i].shares, currentDifficulty)

(***************************************************************************)
(* C22: every read of a worker's name, parent or session field made by a   *)
(* Worker method is made under that worker's lock, so no such read runs    *)
(* while a SetName, SetParent or SetSession call on the same worker is     *)
(* inside its critical section writing the same field.  (SpecLocks)        *)
(***************************************************************************)
\* the field of worker w the next step of context t reads
ReadsField(t, w) ==
  IF pc[t].at = "G_read" /\ pc[t].w = w
    THEN {IF pc[t].op = "Name" THEN "name" ELSE IF pc[t].op = "Parent" THEN "parent" ELSE "s"}
  ELSE IF pc[t].at \in {"CD_pool", "CD_par_read"} /\ pc[t].w = w THEN {"parent"}
  ELSE IF pc[t].at = "CD_name_read" /\ pc[t].w = w THEN {"name"}
  ELSE IF pc[t].at = "CD_hw_read" /\ pc[t].hw = w THEN {"name"}
  ELSE {}

\* the field of worker w a setter of context t is writing
WritesField(t, w) ==
  IF pc[t].at \in {"S_write", "S_unlock"} /\ pc[t].w = w
    THEN {IF pc[t].op = "SetName" THEN "name" ELSE IF pc[t].op = "SetParent" THEN "parent" ELSE "s"}
    ELSE {}

C22_ReadsUnderLock ==
  \A t, u \in DOMAIN pc : \A w \in 1..Len(workers) :
    ReadsField(t, w) \cap WritesField(u, w) = {}

(***************************************************************************)
(* IncrementBlocksFound called by several contexts on one instance.  The   *)
(* statement w.wr.blocksFound++ (line 153) is an unsynchronised load and   *)
(* store of the field; updateWorkerRecord reads the field again when it    *)
(* builds the record.                                                      *)
(***************************************************************************)
\* line 153, first half: the field is loaded
IncrementBlocksFound_Load(t) ==
  /\ pc[t].at = "idle"
  /\ pc[t].left > 0
  /\ \E w \in Created :
       pc' = [pc EXCEPT ![t].at = "IBF_store", ![t].w = w,
                        ![t].v = workers[w].blocksFound]
  /\ UNCHANGED <<workers, shareVars, nonShareVars>>

\* line 153, second half: the loaded value plus one is stored
IncrementBlocksFound_Store(t) ==
  /\ pc[t].at = "IBF_store"
  /\ workers' = [workers EXCEPT ![pc[t].w].blocksFound = pc[t].v + 1]
  /\ pc' = [pc EXCEPT ![t].at = "IBF_update", ![t].v = 0]
  /\ UNCHANGED <<shareVars, nonShareVars>>

InitRace ==
  /\ workers = << MakeWorker(1, "rig", "c1", "s1") >>
  /\ creation = << [copy |-> FALSE, fsDown |-> FALSE, mkdir |-> TRUE,
                     logger |-> TRUE, result |-> "worker"] >>
  /\ clientWorkers = [c \in Clients |-> [n \in Names |-> IF c = "c1" /\ n = "rig" THEN {1} ELSE {}]]
  /\ stratumID = 1
  /\ fsFailing = FALSE
  /\ pc = [t \in Callers |-> [at |-> "idle", w |-> 0, left |-> KCalls, v |-> 0]]
  /\ shifts = << NewShift >>
  /\ sessShift = [s \in {"s1"} |-> 1]
  /\ currentDifficulty = F_One
  /\ rotations = 0
  /\ returnedIn = << 0 >>
  /\ seqRun = TRUE
  /\ NoScanState
  /\ store = << >>
  /\ renter = NoRenter
  /\ api = NoRequest

NextRace ==
  \/ \E t \in DOMAIN pc : IncrementBlocksFound_Load(t)
  \/ \E t \in DOMAIN pc : IncrementBlocksFound_Store(t)
  \/ \E t \in DOMAIN pc : IncrementBlocksFound_Update(t)

SpecRace == InitRace /\ [][NextRace]_vars

(***************************************************************************)
(* C23: the found-block counter is exact under concurrent writers.  When   *)
(* NCallers contexts each call IncrementBlocksFound KCalls times on the    *)
(* same instance, BlocksFound() is NCallers * KCalls once all calls have   *)
(* returned, and no two persistence writes of the instance carry the same  *)
(* blocksFound value.  (SpecRace)                                          *)
(***************************************************************************)
C23_ExactUnderConcurrency ==
  /\ AllReturned => BlocksFound(1) = NCallers * KCalls
  /\ \A i, j \in 1..Len(store) :
       (i # j /\ store[i].w = store[j].w) => store[i].blocksFound # store[j].blocksFound

(***************************************************************************)
(* C24: CurrentDifficulty holds the Dispatcher's lock from before the      *)
(* first handler is examined until its result is computed: a scan in       *)
(* progress holds d.mu, the registry does not change during a scan (no     *)
(* Add or Remove takes effect), so the handlers examined are the registry  *)
(* of one instant, and d.mu is free again once the scan has returned, with *)
(* or without a match.  (SpecScan)                                         *)
(***************************************************************************)
C24_ScanHoldsRegistryLock ==
  /\ [](\A t \in DOMAIN pc : InScan(t) => dmu = t)
  /\ [](dmu # 0 => InScan(dmu))
  /\ [][(\E t \in DOMAIN pc : InScan(t)) => handlers' = handlers]_vars
  /\ [][\A t \in DOMAIN pc : ScanReturns(t) => (dmu = t /\ dmu' = 0)]_vars

\* a scan has counted a handler and has more to examine while a connection
\* that is not registered could be added but for the lock
C24_Witness ==
  \E t \in DOMAIN pc :
    /\ InScan(t) /\ dmu = t
    /\ pc[t].workerCount >= 1
    /\ pc[t].todo # {}
    /\ events < MaxEvents
    /\ \E s \in ScanSessions : s \notin handlers

(***************************************************************************)
(* C25: each increment operation changes only its own counter of the bound *)
(* session's current shift.  IncrementInvalidShares changes only the       *)
(* invalid count, IncrementStaleShares only the stale count,               *)
(* SetLastShareTime only the last-share time, IncrementShares only the     *)
(* share count and the cumulative difficulty; the reading methods change   *)
(* nothing; none changes blocksFound, the worker's name, parent or         *)
(* session, the persistence store, or any other shift.  (SpecAccount)      *)
(***************************************************************************)
ShiftFields == {"shares", "invalid", "stale", "cumulativeDifficulty",
                "lastShareTime", "finalized"}

\* the accounting method context t is executing
OpAt(t) ==
  IF pc[t].at \in {"IS_inc", "IS_shift2", "IS_cum"} THEN "IncrementShares" ELSE pc[t].op

\* the counters the method may change
ChangedBy(op) ==
  IF op = "IncrementInvalidShares" THEN {"invalid"}
  ELSE IF op = "IncrementStaleShares" THEN {"stale"}
  ELSE IF op = "SetLastShareTime" THEN {"lastShareTime"}
  ELSE IF op = "IncrementShares" THEN {"shares", "cumulativeDifficulty"}
  ELSE {}

C25_IncrementFrame ==
  [][\A t \in AccountContexts :
       (pc[t].at \in {"AC_apply", "IS_inc", "IS_shift2", "IS_cum"} /\ pc'[t] # pc[t]) =>
          /\ workers' = workers
          /\ sessShift' = sessShift
          /\ store' = store
          /\ Len(shifts') = Len(shifts)
          /\ \A i \in 1..Len(shifts) : \A f \in ShiftFields :
               shifts'[i][f] # shifts[i][f] =>
                 /\ i = SessionShift(workers[pc[t].w].s)
                 /\ f \in ChangedBy(OpAt(t))
          /\ (pc[t].at = "AC_apply" /\ pc[t].op = "IncrementInvalidShares") =>
               shifts'[pc[t].sh].invalid = shifts[pc[t].sh].invalid + 1
          /\ (pc[t].at = "AC_apply" /\ pc[t].op = "IncrementStaleShares") =>
               shifts'[pc[t].sh].stale = shifts[pc[t].sh].stale + 1
          /\ (pc[t].at = "AC_apply" /\ pc[t].op = "SetLastShareTime") =>
               shifts'[pc[t].sh].lastShareTime = ShareTime]_vars

\* IncrementInvalidShares has returned after an IncrementShares and a
\* SetLastShareTime on the same shift: one share, one invalid share, no
\* stale share
C25_Witness ==
  \E t \in AccountContexts :
    /\ pc[t].at = "idle" /\ pc[t].op = "IncrementInvalidShares"
    /\ workers[pc[t].w].s = "s1"
    /\ shifts[1].invalid = 1 /\ shifts[1].stale = 0 /\ shifts[1].shares = 1
    /\ shifts[1].lastShareTime = ShareTime
    /\ shifts[1].cumulativeDifficulty = currentDifficulty
    /\ shifts[2] = NewShift
    /\ workers[pc[t].w].blocksFound = 0

(***************************************************************************)
(* C26: CurrentDifficulty completes normally for every registry content.   *)
(* A handler with no bound client is skipped without being counted, no     *)
(* step of a scan aborts it (in particular not a handler that has a bound  *)
(* client but no current worker yet), and a call that is over does not     *)
(* hold the Dispatcher's lock.  (SpecScan)                                 *)
(***************************************************************************)
C26_ScanCompletesNormally ==
  /\ [](\A t \in DOMAIN pc : ~InFlight(t) => dmu # t)
  /\ [][\A t \in DOMAIN pc :
          (pc[t].at = "CD_next" /\ pc'[t].at = "CD_next") =>
             pc'[t].workerCount = pc[t].workerCount]_vars
  /\ [][\A t \in DOMAIN pc : InScan(t) => pc'[t].at # "panic"]_vars

(***************************************************************************)
(* consensusBlocksHandler (lines 294-340).  The query parameters id and    *)
(* height are absent (""), unparsable, or name a block the consensus set   *)
(* has or does not have.  WriteError and WriteJSON each write one response *)
(* to the connection.                                                      *)
(***************************************************************************)
IDParams == {"", "zz", "b1", "b9"}

HeightParams == {"", "x", "1", "9"}

\* bid.LoadString(id): the block id, or 0 when id is no block id
LoadString(id) == IF id = "b1" THEN 1 ELSE IF id = "b9" THEN 9 ELSE 0

\* fmt.Sscan(height, &h): the height, or -1 when height is no number
Sscan(height) == IF height = "1" THEN 1 ELSE IF height = "9" THEN 9 ELSE -1

\* the consensus set as the request finds it: the blocks it holds, block n
\* at height n
ConsensusSets == {{}, {1}, {1, 9}}

\* api.cs.BlockByID(bid)
BlockByID(cs, bid) == IF bid \in cs THEN [b |-> bid, h |-> bid, exists |-> TRUE]
                      ELSE [b |-> 0, h |-> 0, exists |-> FALSE]

\* api.cs.BlockAtHeight(h)
BlockAtHeight(cs, h) == IF h \in cs THEN [b |-> h, exists |-> TRUE]
                        ELSE [b |-> 0, exists |-> FALSE]

WriteError(msg) == [api EXCEPT !.responses = Append(@, [kind |-> "error", msg |-> msg])]

\* the handler returns
CBH_Return(a) == [a EXCEPT !.at = "done"]

\* line 296: the query parameters are read; b, h and exists are zero
CBH_Call ==
  /\ api.at \in {"none", "done"}
  /\ \E id \in IDParams, height \in HeightParams, cs \in ConsensusSets :
       api' = [at |-> "checkBoth", id |-> id, height |-> height, cs |-> cs,
               b |-> 0, h |-> 0, exists |-> FALSE, responses |-> << >>]
  /\ UNCHANGED nonApiVars

\* lines 297-299
CBH_CheckBoth ==
  /\ api.at = "checkBoth"
  /\ api' = [(IF api.id # "" /\ api.height # ""
                THEN WriteError("can't specify both id and height")
                ELSE api) EXCEPT !.at = "checkNeither"]
  /\ UNCHANGED nonApiVars

\* lines 300-302
CBH_CheckNeither ==
  /\ api.at = "checkNeither"
  /\ api' = [(IF api.id = "" /\ api.height = ""
                THEN WriteError("either id or height has to be provided")
                ELSE api) EXCEPT !.at = "byID"]
  /\ UNCHANGED nonApiVars

\* lines 309-316
CBH_ByID ==
  /\ api.at = "byID"
  /\ api' = IF api.id = "" THEN [api EXCEPT !.at = "byHeight"]
            ELSE IF LoadString(api.id) = 0
              THEN CBH_Return(WriteError("failed to unmarshal blockid"))
              ELSE LET r == BlockByID(api.cs, LoadString(api.id))
                   IN  [api EXCEPT !.at = "byHeight", !.b = r.b, !.h = r.h,
                                   !.exists = r.exists]
  /\ UNCHANGED nonApiVars

\* lines 318-324
CBH_ByHeight ==
  /\ api.at = "byHeight"
  /\ api' = IF api.height = "" THEN [api EXCEPT !.at = "checkExists"]
            ELSE IF Sscan(api.height) < 0
              THEN CBH_Return(WriteError("failed to parse block height"))
              ELSE LET r == BlockAtHeight(api.cs, Sscan(api.height))
                   IN  [api EXCEPT !.at = "checkExists", !.b = r.b,
                                   !.h = Sscan(api.height), !.exists = r.exists]
  /\ UNCHANGED nonApiVars

\* lines 326-329
CBH_CheckExists ==
  /\ api.at = "checkExists"
  /\ api' = IF ~api.exists
              THEN CBH_Return(WriteError("block doesn't exist"))
              ELSE [api EXCEPT !.at = "write"]
  /\ UNCHANGED nonApiVars

\* lines 331-339: WriteJSON(w, ConsensusBlocksGet{ID: b.ID(), Height: h, ...})
CBH_WriteJSON ==
  /\ api.at = "write"
  /\ api' = CBH_Return([api EXCEPT !.responses =
                          Append(@, [kind |-> "block", id |-> api.b, height |-> api.h])])
  /\ UNCHANGED nonApiVars

\* the miningpool state the handler never touches
InitApi ==
  /\ workers = << >>
  /\ pc = << >>
  /\ shifts = << >>
  /\ sessShift = << >>
  /\ currentDifficulty = F_One
  /\ rotations = 0
  /\ returnedIn = << >>
  /\ seqRun = TRUE
  /\ clientWorkers = [c \in Clients |-> [n \in Names |-> {}]]
  /\ stratumID = 0
  /\ fsFailing = FALSE
  /\ creation = << >>
  /\ NoScanState
  /\ store = << >>
  /\ renter = NoRenter
  /\ api = NoRequest

NextApi ==
  \/ CBH_Call
  \/ CBH_CheckBoth
  \/ CBH_CheckNeither
  \/ CBH_ByID
  \/ CBH_ByHeight
  \/ CBH_CheckExists
  \/ CBH_WriteJSON

SpecApi == InitApi /\ [][NextApi]_vars

\* the request is one the handler answers with an error
BadRequest(id, height, cs) ==
  \/ id # "" /\ height # ""
  \/ id = "" /\ height = ""
  \/ id # "" /\ LoadString(id) = 0
  \/ height # "" /\ Sscan(height) < 0
  \/ id # "" /\ ~BlockByID(cs, LoadString(id)).exists
  \/ height # "" /\ ~BlockAtHeight(cs, Sscan(height)).exists

(***************************************************************************)
(* C27: consensusBlocksHandler writes exactly one response per request:    *)
(* one error response when both id and height are given, when neither is   *)
(* given, when the parameter cannot be parsed or when the block does not   *)
(* exist, and one block response otherwise; at no moment has a request     *)
(* more than one response.  (SpecApi)                                      *)
(***************************************************************************)
C27_OneResponsePerRequest ==
  /\ api.at # "none" => Len(api.responses) <= 1
  /\ api.at = "done" =>
       /\ Len(api.responses) = 1
       /\ api.responses[1].kind =
            IF BadRequest(api.id, api.height, api.cs) THEN "error" ELSE "block"

(***************************************************************************)
(* types.Currency: an unbounded natural number (a big.Int), here its       *)
(* limbs in base 10^4, least significant first, with no leading zero limb; *)
(* zero is the empty sequence.                                             *)
(***************************************************************************)
LimbBase == 10000

RECURSIVE AddLimbs(_, _, _)
AddLimbs(x, y, c) ==
  IF x = << >> /\ y = << >>
    THEN IF c = 0 THEN << >> ELSE << c >>
    ELSE LET a == IF x = << >> THEN 0 ELSE Head(x)
             b == IF y = << >> THEN 0 ELSE Head(y)
         IN  << (a + b + c) % LimbBase >> \o
             AddLimbs(IF x = << >> THEN x ELSE Tail(x),
                      IF y = << >> THEN y ELSE Tail(y), (a + b + c) \div LimbBase)

\* func (x Currency) Add(y Currency) Currency
CurrencyAdd(x, y) == AddLimbs(x, y, 0)

RECURSIVE MulLimbs(_, _, _)
MulLimbs(x, k, c) ==
  IF x = << >>
    THEN IF c = 0 THEN << >> ELSE << c % LimbBase >> \o MulLimbs(x, k, c \div LimbBase)
    ELSE << (Head(x) * k + c) % LimbBase >> \o
         MulLimbs(Tail(x), k, (Head(x) * k + c) \div LimbBase)

\* func (x Currency) Mul64(y uint64) Currency, for 0 < y < 10^4
CurrencyMul64(x, k) == MulLimbs(x, k, 0)

\* x * 10^12
CurrencyMulTera(x) == IF x = << >> THEN x ELSE << 0, 0, 0 >> \o x

\* the quotient's limbs, most significant first, of the limbs x (most
\* significant first) with remainder r carried in
RECURSIVE DivLimbs(_, _, _)
DivLimbs(x, k, r) ==
  IF x = << >> THEN << >>
  ELSE << (r * LimbBase + Head(x)) \div k >> \o
       DivLimbs(Tail(x), k, (r * LimbBase + Head(x)) % k)

RECURSIVE StripZeros(_)
StripZeros(x) == IF x # << >> /\ Head(x) = 0 THEN StripZeros(Tail(x)) ELSE x

\* func (x Currency) Div64(y uint64) Currency, for 0 < y < 10^4; big.Int
\* division aborts on y = 0
CurrencyDiv64(x, k) == Reverse(StripZeros(DivLimbs(Reverse(x), k, 0)))

(***************************************************************************)
(* Renter.PriceEstimation (lines 724-765).  The hostdb returns up to       *)
(* MaxHosts hosts, each with its four prices.                              *)
(***************************************************************************)
MaxHosts == 3

\* the prices a host announces
HostEntries ==
  { [ContractPrice |-> << 5 >>, DownloadBandwidthPrice |-> << 1 >>,
     StoragePrice |-> << 2 >>, UploadBandwidthPrice |-> << 3 >>],
    [ContractPrice |-> << 9999, 1 >>, DownloadBandwidthPrice |-> << >>,
     StoragePrice |-> << 7 >>, UploadBandwidthPrice |-> << 1 >>],
    [ContractPrice |-> << >>, DownloadBandwidthPrice |-> << 2 >>,
     StoragePrice |-> << 1 >>, UploadBandwidthPrice |-> << 4 >>] }

HostLists == UNION {[1..n -> HostEntries] : n \in 0..MaxHosts}

\* line 726: hosts := r.hostDB.RandomHosts(50, nil); lines 729-732: the
\* totals are zero
PriceEstimation_RandomHosts ==
  /\ renter.at \in {"idle", "PE_done"}
  /\ \E hosts \in HostLists :
       renter' = [at |-> "PE_sum", hosts |-> hosts, i |-> 1,
                  totalContractCost |-> << >>, totalDownloadCost |-> << >>,
                  totalStorageCost |-> << >>, totalUploadCost |-> << >>]
  /\ UNCHANGED nonRenterVars

\* lines 733-738: one iteration of the loop over the hosts
PriceEstimation_Add ==
  /\ renter.at = "PE_sum"
  /\ renter.i <= Len(renter.hosts)
  /\ LET host == renter.hosts[renter.i]
     IN  renter' = [renter EXCEPT
           !.i = @ + 1,
           !.totalContractCost = CurrencyAdd(@, host.ContractPrice),
           !.totalDownloadCost = CurrencyAdd(@, host.DownloadBandwidthPrice),
           !.totalStorageCost = CurrencyAdd(@, host.StoragePrice),
           !.totalUploadCost = CurrencyAdd(@, host.UploadBandwidthPrice)]
  /\ UNCHANGED nonRenterVars

\* lines 741-743: BytesPerTerabyte is 10^12, BlockBytesPerMonthTerabyte is
\* 4320 * 10^12; lines 746-747: the redundancy of 3
PriceEstimation_Scale ==
  /\ renter.at = "PE_sum"
  /\ renter.i > Len(renter.hosts)
  /\ renter' = [renter EXCEPT
       !.at = "PE_average",
       !.totalDownloadCost = CurrencyMulTera(@),
       !.totalStorageCost = CurrencyMul64(CurrencyMulTera(CurrencyMul64(@, 4320)), 3),
       !.totalUploadCost = CurrencyMul64(CurrencyMulTera(@), 3)]
  /\ UNCHANGED nonRenterVars

\* an aborted call: nothing is returned
PriceEstimation_Panic == [at |-> "PE_panic", hosts |-> renter.hosts]

\* lines 750-753: Div64(uint64(len(hosts))); the first division aborts the
\* call when there is no host
PriceEstimation_Average ==
  /\ renter.at = "PE_average"
  /\ renter' = LET n == Len(renter.hosts)
               IN  IF n = 0 THEN PriceEstimation_Panic
                   ELSE [renter EXCEPT
                           !.at = "PE_mul50",
                           !.totalContractCost = CurrencyDiv64(@, n),
                           !.totalDownloadCost = CurrencyDiv64(@, n),
                           !.totalStorageCost = CurrencyDiv64(@, n),
                           !.totalUploadCost = CurrencyDiv64(@, n)]
  /\ UNCHANGED nonRenterVars

\* line 757: totalContractCost.Mul64(50); lines 759-764: the estimation is
\* returned
PriceEstimation_Return ==
  /\ renter.at = "PE_mul50"
  /\ renter' = [at |-> "PE_done", hosts |-> renter.hosts,
                ret |-> [ContractPrice |-> CurrencyMul64(renter.totalContractCost, 50),
                         DownloadTerabyte |-> renter.totalDownloadCost,
                         StorageTerabyteMonth |-> renter.totalStorageCost,
                         UploadTerabyte |-> renter.totalUploadCost]]
  /\ UNCHANGED nonRenterVars

NextPrice ==
  \/ PriceEstimation_RandomHosts
  \/ PriceEstimation_Add
  \/ PriceEstimation_Scale
  \/ PriceEstimation_Average
  \/ PriceEstimation_Return

SpecPrice == InitApi /\ [][NextPrice]_vars

(***************************************************************************)
(* C28: Renter.PriceEstimation returns a price estimation without aborting *)
(* for every host list the hostdb returns, the empty list included.        *)
(* (SpecPrice)                                                             *)
(***************************************************************************)
C28_PriceEstimationReturns == renter.at # "PE_panic"

(***************************************************************************)
(* Renter.SetSettings (lines 768-778), called by several contexts on one   *)
(* Renter.  hostContractor.SetAllowance succeeds or returns an error;      *)
(* r.mu is the renter's lock; updateWorkerPool rebuilds the worker pool,   *)
(* here the number of times it has been rebuilt.                           *)
(***************************************************************************)
SettingsCallers == {1, 2}

\* a caller between its calls; what its last call returned and did
NoSettingsCall == [at |-> "idle", left |-> KCalls, err |-> "none", ret |-> "none",
                   tookLock |-> FALSE, updates |-> 0]

\* SetSettings is entered
SetSettings_Call(t) ==
  /\ renter.call[t].at = "idle"
  /\ renter.call[t].left > 0
  /\ renter' = [renter EXCEPT !.call[t] =
                  [at |-> "SS_allowance", left |-> @.left - 1, err |-> "none", ret |-> "none",
                   tookLock |-> FALSE, updates |-> 0]]
  /\ UNCHANGED nonRenterVars

\* lines 769-772 going on to the lock whatever SetAllowance returned
SetSettings_SetAllowance_IgnoresError(t) ==
  /\ renter.call[t].at = "SS_allowance"
  /\ \E err \in {"nil", "errAllowance"} :
       renter' = [renter EXCEPT !.call[t].at = "SS_lock", !.call[t].err = err]
  /\ UNCHANGED nonRenterVars

\* lines 769-772: err := r.hostContractor.SetAllowance(s.Allowance); an
\* error is returned at once
SetSettings_SetAllowance(t) ==
  /\ renter.call[t].at = "SS_allowance"
  /\ \E err \in {"nil", "errAllowance"} :
       renter' = IF err # "nil"
                   THEN [renter EXCEPT !.call[t].at = "idle", !.call[t].err = err,
                                       !.call[t].ret = err]
                   ELSE [renter EXCEPT !.call[t].at = "SS_lock", !.call[t].err = err]
  /\ UNCHANGED nonRenterVars

\* line 774: id := r.mu.Lock()
SetSettings_Lock(t) ==
  /\ renter.call[t].at = "SS_lock"
  /\ renter.mu = 0
  /\ renter' = [renter EXCEPT !.mu = t, !.call[t].at = "SS_update",
                              !.call[t].tookLock = TRUE]
  /\ UNCHANGED nonRenterVars

\* line 775: r.updateWorkerPool()
SetSettings_UpdateWorkerPool(t) ==
  /\ renter.call[t].at = "SS_update"
  /\ renter' = [renter EXCEPT !.workerPool = @ + 1, !.call[t].at = "SS_unlock",
                              !.call[t].updates = @ + 1]
  /\ UNCHANGED nonRenterVars

\* line 776: r.mu.Unlock(id)
SetSettings_Unlock(t) ==
  /\ renter.call[t].at = "SS_unlock"
  /\ renter' = [renter EXCEPT !.mu = 0, !.call[t].at = "SS_return"]
  /\ UNCHANGED nonRenterVars

\* line 777: return nil
SetSettings_Return(t) ==
  /\ renter.call[t].at = "SS_return"
  /\ renter' = [renter EXCEPT !.call[t].at = "idle", !.call[t].ret = "nil"]
  /\ UNCHANGED nonRenterVars

\* a Renter as newRenter returns it: one updateWorkerPool has run, r.mu is
\* free
InitSettings ==
  /\ workers = << >>
  /\ pc = << >>
  /\ shifts = << >>
  /\ sessShift = << >>
  /\ currentDifficulty = F_One
  /\ rotations = 0
  /\ returnedIn = << >>
  /\ seqRun = TRUE
  /\ clientWorkers = [c \in Clients |-> [n \in Names |-> {}]]
  /\ stratumID = 0
  /\ fsFailing = FALSE
  /\ creation = << >>
  /\ NoScanState
  /\ store = << >>
  /\ renter = [mu |-> 0, workerPool |-> 1,
               call |-> [t \in SettingsCallers |-> NoSettingsCall]]
  /\ api = NoRequest

NextSettings ==
  \/ \E t \in SettingsCallers : SetSettings_Call(t)
  \/ \E t \in SettingsCallers : SetSettings_SetAllowance(t)
  \/ \E t \in SettingsCallers : SetSettings_Lock(t)
  \/ \E t \in SettingsCallers : SetSettings_UpdateWorkerPool(t)
  \/ \E t \in SettingsCallers : SetSettings_Unlock(t)
  \/ \E t \in SettingsCallers : SetSettings_Return(t)

SpecSettings == InitSettings /\ [][NextSettings]_vars

\* the call of t has returned
SettingsReturned(t) == renter.call[t].at = "idle" /\ renter.call[t].ret # "none"

(***************************************************************************)
(* C29: Renter.SetSettings.  If SetAllowance returns an error, that error  *)
(* is returned, the call never takes the renter lock and does not update   *)
(* the worker pool.  On success nil is returned, the call updated the      *)
(* worker pool exactly once, every update of the pool is made by a call    *)
(* holding the renter lock, and the lock is released before the call       *)
(* returns.  (SpecSettings)                                                *)
(***************************************************************************)
C29_SetSettings ==
  /\ [](\A t \in SettingsCallers :
          /\ (SettingsReturned(t) /\ renter.call[t].err # "nil") =>
               /\ renter.call[t].ret = renter.call[t].err
               /\ ~renter.call[t].tookLock /\ renter.call[t].updates = 0
          /\ (SettingsReturned(t) /\ renter.call[t].err = "nil") =>
               /\ renter.call[t].ret = "nil"
               /\ renter.call[t].tookLock /\ renter.call[t].updates = 1
          /\ renter.call[t].at \in {"SS_update", "SS_unlock"} <=> renter.mu = t)
  /\ [][\A t \in SettingsCallers :
          /\ (renter.call[t].at = "SS_allowance" /\ renter'.call[t].err = "errAllowance") =>
               (renter'.call[t].at = "idle" /\ renter'.call[t].ret = "errAllowance"
                  /\ renter'.workerPool = renter.workerPool /\ renter'.mu = renter.mu)
          /\ renter'.workerPool # renter.workerPool =>
               (renter.mu # 0 /\ renter'.mu = renter.mu
                  /\ renter.call[renter.mu].at = "SS_update"
                  /\ renter'.workerPool = renter.workerPool + 1)]_vars

\* one caller's SetSettings has failed in SetAllowance while the other
\* caller holds the lock, after one successful call
C29_Witness ==
  \E t, u \in SettingsCallers :
    /\ t # u
    /\ SettingsReturned(t) /\ renter.call[t].ret = "errAllowance"
    /\ renter.call[t].left = KCalls - 2
    /\ renter.mu = u /\ renter.call[u].at = "SS_unlock"
    /\ renter.workerPool = 3

====
